---- MODULE Spec2Model ----
(***************************************************************************)
(* Model of package fbbatch (src/fbbatch/fbbatch.go): a Client whose Do    *)
(* calls are aggregated by one background worker goroutine into batches    *)
(* that are dispatched by send goroutines through BatchDo, each caller     *)
(* receiving its positional sub-response on its own result channel.        *)
(*                                                                         *)
(* Goroutines are interleaved at the granularity of their blocking and     *)
(* shared-memory operations: a channel operation, a WaitGroup operation, a *)
(* read or write of the field c.work, the transport call.                  *)
(***************************************************************************)
EXTENDS Naturals, Integers, Sequences, FiniteSets, TLC

\* ------------------------------------------------------------------------
\* Bounds of the model.
\* ------------------------------------------------------------------------
\* Number of Do invocations.
MaxCalls == 3
\* Number of Start invocations (the restart scenario makes one more).
MaxStarts == 1
\* Number of Stop invocations.
MaxStops == 2

\* ------------------------------------------------------------------------
\* Program constants.
\* ------------------------------------------------------------------------
\* *DefaultMaxBatchSize, the flag default.
DefaultMaxBatchSize == 50
\* The MaxBatchSize the client of TestMaxBatchSize is configured with.
ConfiguredMaxBatchSize == 2

\* *DefaultBatchTimeout, the flag default, in milliseconds.
DefaultBatchTimeout == 10
\* The defaults of the muster-based client: defaultPendingWorkCapacity,
\* defaultBatchTimeout in milliseconds, defaultMaxBatchSize.
defaultPendingWorkCapacity == 1000
defaultBatchTimeout == 10
defaultMaxBatchSize == 50

\* c.work = make(chan *workRequest): the intake channel has no buffer.
IntakeCapacity == 0
\* The number of Params handed to one call of ParamValues.
MaxParams == 2
\* The number of invocations of Cache.Do made one after the other.
MaxCacheCalls == 2
Calls == 1..MaxCalls
\* The Start invocations, which also name the channel and the worker each makes.
Starts == 1..(MaxStarts + 1)
Stops == 1..MaxStops

\* The nil pointer / nil error / nil channel.
nil == [nil |-> TRUE]
\* errNotStarted = errors.New("fbbatch: client not started")
errNotStarted == [error |-> "fbbatch: client not started"]
\* The error ioutil.ReadAll returns when reading the request body fails.
errBodyRead == [error |-> "body read error"]

VARIABLES
  work,          \* c.work: 0 is the nil channel, k > 0 the channel made by the k-th Start
  chanState,     \* per channel: "none" (not made), "open", "closed"
  MaxBatchSize,  \* c.MaxBatchSize
  workGroup,     \* the counter of c.workGroup
  workers,       \* per Start, the worker goroutine it spawned
  calls,         \* per Do invocation, the calling goroutine
  sends,         \* the invocations of c.send, in the order the worker made them
  stops,         \* per Stop invocation, the calling goroutine
  crashed,       \* a goroutine panicked: the process is gone
  fb             \* one invocation of a function of package fbapi: its inputs,
                 \* its position and its results

vars ==
  <<work, chanState, MaxBatchSize, workGroup, workers, calls, sends, stops, crashed, fb>>

\* No function of package fbapi has been invoked.
idleFb == [op |-> "none"]

\* ------------------------------------------------------------------------
\* Envelope types and the pure helpers.
\* ------------------------------------------------------------------------
\* type workResponse struct { Response *Response; Error error }
workResponse(response, error) == [Response |-> response, Error |-> error]

\* What a caller may ask for: an object the Graph API has, one it does not
\* have, and one whose answer the caller's result type cannot decode.
Paths == {"found", "missing", "garbled"}

\* newRequest: the batch Request built for the c-th Do, whose URL has the
\* given path.  The relative URL is the caller's own, which the model keeps
\* distinct per call.
newRequestFor(c, path) == [Method |-> "GET", RelativeURL |-> <<c, path>>]

\* type Response: what the Graph API answers to one sub-request.
Response(request) ==
  IF request.RelativeURL[2] = "missing"
    THEN [Code |-> 404, Body |-> <<"error", request.RelativeURL>>]
    ELSE [Code |-> 200, Body |-> <<request.RelativeURL[2], request.RelativeURL>>]

\* The error value a failed composite call returns; one value per invocation.
transportError(d) == [error |-> "transport", call |-> d]


\* BatchDo on success: one Response per Request, positionally.
BatchDo(requests) == [i \in 1..Len(requests) |-> Response(requests[i])]

\* sendResult with the sub-responses handed out in reverse order.
sendResultReversed(res, err, i) ==
  IF err = nil THEN workResponse(res[Len(res) + 1 - i], nil) ELSE workResponse(nil, err)

\* sendResult with a new error value made for each caller of a failed batch.
sendResultErrorPerCaller(res, err, i) ==
  IF err = nil THEN workResponse(res[i], nil)
  ELSE workResponse(nil, [error |-> "transport", call |-> err.call, position |-> i])

\* sendResult failing every caller of a batch in which some sub-response has
\* a status other than success.
sendResultFailsSiblings(res, err, i) ==
  IF err = nil /\ \A j \in 1..Len(res) : res[j].Code = 200
    THEN workResponse(res[i], nil)
    ELSE workResponse(nil, [error |-> "batch"])

\* send, lines 233-239: what is written to the i-th result channel.
sendResult(res, err, i) ==
  IF err = nil THEN workResponse(res[i], nil) ELSE workResponse(nil, err)

\* Response.httpResponse and fbapi.UnmarshalResponse, as Do uses them on
\* lines 258-267: the pair Do returns for a received workResponse.
DoReturn(wr) ==
  IF wr.Error # nil
    THEN [res |-> nil, err |-> wr.Error]
    ELSE IF wr.Response.Code > 399 \/ wr.Response.Code < 200
      THEN [res |-> wr.Response, err |-> [error |-> "api", code |-> wr.Response.Code]]
    ELSE IF wr.Response.Body[1] = "garbled"
      THEN [res |-> wr.Response, err |-> [error |-> "decode", code |-> wr.Response.Code]]
      ELSE [res |-> wr.Response, err |-> nil]

\* ------------------------------------------------------------------------
\* Initial state: a constructed client, no goroutine started.
\* ------------------------------------------------------------------------
idleWorker ==
  [pc |-> "none", ch |-> 0, batch |-> <<>>, batchTimeout |-> FALSE, armedBy |-> 0]
idleCall ==
  [pc |-> "idle", path |-> "found", ch |-> 0, seq |-> 0, worker |-> 0, wr |-> nil, from |-> 0,
   ret |-> nil, afterStop |-> FALSE, afterFailure |-> FALSE]
idleStop == [pc |-> "idle", accepted |-> {}]

Init ==
  /\ work = 0
  /\ chanState = [k \in Starts |-> "none"]
  /\ MaxBatchSize \in {0, ConfiguredMaxBatchSize}
  /\ workGroup = 0
  /\ workers = [k \in Starts |-> idleWorker]
  /\ calls = [c \in Calls |-> idleCall]
  /\ sends = <<>>
  /\ stops = [s \in Stops |-> idleStop]
  /\ crashed = FALSE
  /\ fb = idleFb

\* ------------------------------------------------------------------------
\* Derived notions.
\* ------------------------------------------------------------------------
\* The calls the worker has received from the intake channel.
Accepted == {c \in Calls : calls[c].pc \in {"wait", "done"} /\ calls[c].ch # 0}
\* The calls whose result channel has been written.
Resolved == {c \in Calls : calls[c].wr # nil}
\* Some Stop has returned.
StopReturned == \E s \in Stops : stops[s].pc = "returned"
\* Some send whose composite call failed has finished.
FailureDone ==
  \E d \in 1..Len(sends) : sends[d].pc = "done" /\ sends[d].err # nil

\* The batch Request of the c-th Do.
newRequest(c) == newRequestFor(c, calls[c].path)

\* send, lines 224-231: b.Request[i] = rr.Request, in the order of rrs.
BatchRequest(rrs) == [i \in 1..Len(rrs) |-> newRequest(rrs[i])]

\* ------------------------------------------------------------------------
\* Client.Start
\* ------------------------------------------------------------------------
\* The k-th invocation of Start: defaults, c.work = make(chan), go c.worker().
Start(k) ==
  /\ ~crashed
  /\ UNCHANGED fb
  /\ chanState[k] = "none"
  /\ \A j \in Starts : j < k => chanState[j] # "none"
  /\ MaxBatchSize' = IF MaxBatchSize = 0 THEN DefaultMaxBatchSize ELSE MaxBatchSize
  /\ work' = k
  /\ chanState' = [chanState EXCEPT ![k] = "open"]
  /\ workers' = [workers EXCEPT ![k].pc = "spawned"]
  /\ UNCHANGED <<workGroup, calls, sends, stops, crashed>>

\* ------------------------------------------------------------------------
\* Client.worker
\* ------------------------------------------------------------------------
\* go c.send(batch) / c.send(batch): a new invocation of send.
newSend(rrs, by, trigger) ==
  [rrs |-> rrs, by |-> by, trigger |-> trigger, pc |-> "BatchDo",
   req |-> BatchRequest(rrs), tries |-> 0, res |-> <<>>, err |-> nil, i |-> 1,
   timer |-> 0]

\* The worker reaches the select statement and evaluates its channel
\* operand c.work.
WorkerSelect(k) ==
  /\ ~crashed
  /\ UNCHANGED fb
  /\ workers[k].pc = "spawned"
  /\ workers' = [workers EXCEPT ![k].pc = "select", ![k].ch = work]
  /\ UNCHANGED <<work, chanState, MaxBatchSize, workGroup, calls, sends, stops, crashed>>

\* WorkerTimeout without batch = nil: the accumulator keeps the calls it
\* has just dispatched.
WorkerTimeoutKeepsBatch(k) ==
  /\ ~crashed
  /\ UNCHANGED fb
  /\ workers[k].pc = "select"
  /\ workers[k].batchTimeout
  /\ workGroup' = workGroup + 1
  /\ sends' = Append(sends, [newSend(workers[k].batch, 0, "timeout")
                               EXCEPT !.timer = workers[k].armedBy])
  /\ workers' = [workers EXCEPT ![k].batchTimeout = FALSE, ![k].armedBy = 0,
                                ![k].ch = work]
  /\ UNCHANGED <<work, chanState, MaxBatchSize, calls, stops, crashed>>

\* WorkerTimeout calling send itself instead of starting a goroutine for it.
WorkerTimeoutSync(k) ==
  /\ ~crashed
  /\ UNCHANGED fb
  /\ workers[k].pc = "select"
  /\ workers[k].batchTimeout
  /\ workGroup' = workGroup + 1
  /\ sends' = Append(sends, [newSend(workers[k].batch, k, "timeout")
                               EXCEPT !.timer = workers[k].armedBy])
  /\ workers' = [workers EXCEPT ![k].batch = <<>>, ![k].batchTimeout = FALSE,
                                ![k].armedBy = 0, ![k].pc = "send"]
  /\ UNCHANGED <<work, chanState, MaxBatchSize, calls, stops, crashed>>

\* case <-batchTimeout
WorkerTimeout(k) ==
  /\ ~crashed
  /\ UNCHANGED fb
  /\ workers[k].pc = "select"
  /\ workers[k].batchTimeout
  /\ workGroup' = workGroup + 1
  /\ sends' = Append(sends, [newSend(workers[k].batch, 0, "timeout")
                               EXCEPT !.timer = workers[k].armedBy])
  /\ workers' = [workers EXCEPT ![k].batch = <<>>, ![k].batchTimeout = FALSE,
                                ![k].armedBy = 0, ![k].ch = work]
  /\ UNCHANGED <<work, chanState, MaxBatchSize, calls, stops, crashed>>

\* appendRequest losing the new call.
dropRequest(batch, c) == batch

\* appendRequest putting the new call at the head of the accumulator.
prependRequest(batch, c) == <<c>> \o batch

\* batch = append(batch, rr), line 208.
appendRequest(batch, c) == Append(batch, c)

\* batchFull with > for >=.
batchFullStrict(batch, max) == Len(batch) > max

\* The size test of line 212.
batchFull(batch, max) == Len(batch) >= max

\* WorkerReceive without batchTimeout = nil after the flush on size: the
\* timer armed for the flushed batch stays armed.
WorkerReceiveKeepsTimer(k, c) ==
  /\ ~crashed
  /\ UNCHANGED fb
  /\ workers[k].pc = "select"
  /\ calls[c].pc = "send"
  /\ workers[k].ch # 0
  /\ calls[c].ch = workers[k].ch
  /\ chanState[workers[k].ch] = "open"
  /\ calls' = [calls EXCEPT ![c].pc = "wait", ![c].seq = Cardinality(Accepted) + 1,
                            ![c].worker = k]
  /\ LET batch == appendRequest(workers[k].batch, c)
         armed == IF workers[k].batchTimeout THEN workers[k].armedBy ELSE c
     IN IF batchFull(batch, MaxBatchSize)
          THEN /\ workGroup' = workGroup + 1
               /\ sends' = Append(sends, newSend(batch, 0, "size"))
               /\ workers' = [workers EXCEPT ![k].batch = <<>>,
                                             ![k].batchTimeout = TRUE,
                                             ![k].armedBy = armed,
                                             ![k].ch = work]
          ELSE /\ workers' = [workers EXCEPT ![k].batch = batch,
                                             ![k].batchTimeout = TRUE,
                                             ![k].armedBy = armed,
                                             ![k].ch = work]
               /\ UNCHANGED <<workGroup, sends>>
  /\ UNCHANGED <<work, chanState, MaxBatchSize, stops, crashed>>

\* case rr, open := <-c.work with open: the rendezvous with the send of
\* line 256 in the c-th Do.
WorkerReceive(k, c) ==
  /\ ~crashed
  /\ UNCHANGED fb
  /\ workers[k].pc = "select"
  /\ calls[c].pc = "send"
  /\ workers[k].ch # 0
  /\ calls[c].ch = workers[k].ch
  /\ chanState[workers[k].ch] = "open"
  /\ calls' = [calls EXCEPT ![c].pc = "wait", ![c].seq = Cardinality(Accepted) + 1,
                            ![c].worker = k]
  /\ LET batch == appendRequest(workers[k].batch, c)
         armed == IF workers[k].batchTimeout THEN workers[k].armedBy ELSE c
     IN IF batchFull(batch, MaxBatchSize)
          THEN /\ workGroup' = workGroup + 1
               /\ sends' = Append(sends, newSend(batch, 0, "size"))
               /\ workers' = [workers EXCEPT ![k].batch = <<>>,
                                             ![k].batchTimeout = FALSE,
                                             ![k].armedBy = 0,
                                             ![k].ch = work]
          ELSE /\ workers' = [workers EXCEPT ![k].batch = batch,
                                             ![k].batchTimeout = TRUE,
                                             ![k].armedBy = armed,
                                             ![k].ch = work]
               /\ UNCHANGED <<workGroup, sends>>
  /\ UNCHANGED <<work, chanState, MaxBatchSize, stops, crashed>>

\* WorkerClosed leaving the calls of the accumulator behind: the last send
\* carries none of them.
WorkerClosedDropsBatch(k) ==
  /\ ~crashed
  /\ UNCHANGED fb
  /\ workers[k].pc = "select"
  /\ workers[k].ch # 0
  /\ chanState[workers[k].ch] = "closed"
  /\ workGroup' = workGroup + 1
  /\ sends' = Append(sends, newSend(<<>>, k, "closed"))
  /\ workers' = [workers EXCEPT ![k].pc = "send"]
  /\ UNCHANGED <<work, chanState, MaxBatchSize, calls, stops, crashed>>

\* case rr, open := <-c.work with !open: the final, synchronous send.
WorkerClosed(k) ==
  /\ ~crashed
  /\ UNCHANGED fb
  /\ workers[k].pc = "select"
  /\ workers[k].ch # 0
  /\ chanState[workers[k].ch] = "closed"
  /\ workGroup' = workGroup + 1
  /\ sends' = Append(sends, newSend(workers[k].batch, k, "closed"))
  /\ workers' = [workers EXCEPT ![k].pc = "send"]
  /\ UNCHANGED <<work, chanState, MaxBatchSize, calls, stops, crashed>>

\* ------------------------------------------------------------------------
\* Client.send
\* ------------------------------------------------------------------------
\* SendBatchDo calling BatchDo a second time when the first call fails.
SendBatchDoRetry(d, ok) ==
  /\ ~crashed
  /\ UNCHANGED fb
  /\ sends[d].pc = "BatchDo"
  /\ sends' = [sends EXCEPT
       ![d].pc = IF ok \/ sends[d].tries > 0 THEN "deliver" ELSE "BatchDo",
       ![d].tries = sends[d].tries + 1,
       ![d].res = IF ok THEN BatchDo(sends[d].req) ELSE <<>>,
       ![d].err = IF ok THEN nil ELSE transportError(d)]
  /\ UNCHANGED <<work, chanState, MaxBatchSize, workGroup, workers, calls, stops, crashed>>

\* res, err := BatchDo(c.Client, b) returns: the composite call succeeded
\* (ok) or failed.  tries counts the calls of BatchDo made for the batch.
SendBatchDo(d, ok) ==
  /\ ~crashed
  /\ UNCHANGED fb
  /\ sends[d].pc = "BatchDo"
  /\ sends' = [sends EXCEPT
       ![d].pc = "deliver",
       ![d].tries = sends[d].tries + 1,
       ![d].res = IF ok THEN BatchDo(sends[d].req) ELSE <<>>,
       ![d].err = IF ok THEN nil ELSE transportError(d)]
  /\ UNCHANGED <<work, chanState, MaxBatchSize, workGroup, workers, calls, stops, crashed>>

\* SendDeliver not waiting for BatchDo: while the composite call is
\* outstanding the callers are handed an error.
SendDeliverEarly(d) ==
  /\ ~crashed
  /\ UNCHANGED fb
  /\ sends[d].pc \in {"BatchDo", "deliver"}
  /\ sends[d].i <= Len(sends[d].rrs)
  /\ LET c == sends[d].rrs[sends[d].i]
         wr == IF sends[d].pc = "BatchDo" THEN workResponse(nil, transportError(d))
               ELSE sendResult(sends[d].res, sends[d].err, sends[d].i)
     IN /\ calls[c].pc = "wait"
        /\ calls' = [calls EXCEPT ![c].pc = "done", ![c].wr = wr, ![c].from = d,
                                  ![c].ret = DoReturn(wr)]
  /\ sends' = [sends EXCEPT ![d].i = sends[d].i + 1]
  /\ UNCHANGED <<work, chanState, MaxBatchSize, workGroup, workers, stops, crashed>>

\* rr.Response <- &workResponse{...} for the i-th element of rrs: the
\* rendezvous with the receive of line 257 in the Do that owns the channel,
\* which then returns (lines 258-267).
SendDeliver(d) ==
  /\ ~crashed
  /\ UNCHANGED fb
  /\ sends[d].pc = "deliver"
  /\ sends[d].i <= Len(sends[d].rrs)
  /\ sends[d].err # nil \/ sends[d].i <= Len(sends[d].res)
  /\ LET c == sends[d].rrs[sends[d].i]
         wr == sendResult(sends[d].res, sends[d].err, sends[d].i)
     IN /\ calls[c].pc = "wait"
        /\ calls' = [calls EXCEPT ![c].pc = "done", ![c].wr = wr, ![c].from = d,
                                  ![c].ret = DoReturn(wr)]
  /\ sends' = [sends EXCEPT ![d].i = sends[d].i + 1]
  /\ UNCHANGED <<work, chanState, MaxBatchSize, workGroup, workers, stops, crashed>>

\* res[i] on line 237 for an i beyond the sub-responses BatchDo returned: the
\* index is out of range and the goroutine of the send panics.
SendIndexPanic(d) ==
  /\ ~crashed
  /\ UNCHANGED fb
  /\ sends[d].pc = "deliver"
  /\ sends[d].i <= Len(sends[d].rrs)
  /\ sends[d].err = nil
  /\ sends[d].i > Len(sends[d].res)
  /\ sends' = [sends EXCEPT ![d].pc = "panic"]
  /\ crashed' = TRUE
  /\ UNCHANGED <<work, chanState, MaxBatchSize, workGroup, workers, calls, stops>>

\* BatchDo, lines 140-145: the slice made with len(b.Request) is handed to
\* the JSON decoder, which resets it to the length of the array in the
\* body.  The server answers with n sub-responses, n other than the number
\* of sub-requests, and BatchDo returns them with a nil error.
SendBatchDoLen(d, n) ==
  /\ ~crashed
  /\ UNCHANGED fb
  /\ sends[d].pc = "BatchDo"
  /\ n # Len(sends[d].req)
  /\ sends' = [sends EXCEPT
       ![d].pc = "deliver",
       ![d].tries = sends[d].tries + 1,
       ![d].res = [i \in 1..n |->
                    IF i <= Len(sends[d].req)
                      THEN Response(sends[d].req[i])
                      ELSE [Code |-> 200, Body |-> <<"found", <<0, "found">>>>]],
       ![d].err = nil]
  /\ UNCHANGED <<work, chanState, MaxBatchSize, workGroup, workers, calls, stops, crashed>>

\* SendDone leaving the wait group as it is when the composite call failed.
SendDoneOnSuccessOnly(d) ==
  /\ ~crashed
  /\ UNCHANGED fb
  /\ sends[d].pc = "deliver"
  /\ sends[d].i > Len(sends[d].rrs)
  /\ sends' = [sends EXCEPT ![d].pc = "done"]
  /\ workGroup' = IF sends[d].err = nil THEN workGroup - 1 ELSE workGroup
  /\ workers' = IF sends[d].by = 0 THEN workers
                ELSE [workers EXCEPT ![sends[d].by].pc = "exited"]
  /\ UNCHANGED <<work, chanState, MaxBatchSize, calls, stops, crashed>>

\* defer c.workGroup.Done(), after the delivery loop; the worker that ran
\* the send itself then returns.
SendDone(d) ==
  /\ ~crashed
  /\ UNCHANGED fb
  /\ sends[d].pc = "deliver"
  /\ sends[d].i > Len(sends[d].rrs)
  /\ sends' = [sends EXCEPT ![d].pc = "done"]
  /\ workGroup' = workGroup - 1
  /\ workers' = IF sends[d].by = 0 THEN workers
                ELSE [workers EXCEPT ![sends[d].by].pc = "exited"]
  /\ UNCHANGED <<work, chanState, MaxBatchSize, calls, stops, crashed>>

\* ------------------------------------------------------------------------
\* Client.Do
\* ------------------------------------------------------------------------
\* DoBegin without the started check of lines 246-248.
DoBeginNoCheck(c, bodyOK) ==
  /\ ~crashed
  /\ UNCHANGED fb
  /\ calls[c].pc = "idle"
  /\ \A b \in Calls : b < c => calls[b].pc # "idle"
  /\ calls' = [calls EXCEPT ![c] =
       IF ~bodyOK
         THEN [@ EXCEPT !.pc = "done", !.afterStop = StopReturned, !.afterFailure = FailureDone,
                        !.ret = [res |-> nil, err |-> errBodyRead]]
         ELSE [@ EXCEPT !.pc = "send", !.afterStop = StopReturned, !.afterFailure = FailureDone, !.ch = work]]
  /\ UNCHANGED <<work, chanState, MaxBatchSize, workGroup, workers, sends, stops, crashed>>

\* DoBegin going on to the send of line 256 with an empty sub-request when
\* newRequest fails.
DoBeginIgnoresBodyError(c, bodyOK) ==
  /\ ~crashed
  /\ UNCHANGED fb
  /\ calls[c].pc = "idle"
  /\ \A b \in Calls : b < c => calls[b].pc # "idle"
  /\ calls' = [calls EXCEPT ![c] =
       IF work = 0
         THEN [@ EXCEPT !.pc = "done", !.afterStop = StopReturned, !.afterFailure = FailureDone,
                        !.ret = [res |-> nil, err |-> errNotStarted]]
         ELSE [@ EXCEPT !.pc = "send", !.afterStop = StopReturned, !.afterFailure = FailureDone, !.ch = work]]
  /\ UNCHANGED <<work, chanState, MaxBatchSize, workGroup, workers, sends, stops, crashed>>

\* Lines 246-256 of the c-th invocation of Do, up to the evaluation of the
\* channel operand of the send statement: the started check, newRequest
\* (whose read of the body succeeds, bodyOK, or fails) and make(chan).
\* c.work is read on line 246 and again on line 256; as c.work never goes
\* back to nil, the two reads are modelled by one.
DoBegin(c, bodyOK) ==
  /\ ~crashed
  /\ UNCHANGED fb
  /\ calls[c].pc = "idle"
  /\ \A b \in Calls : b < c => calls[b].pc # "idle"
  /\ calls' = [calls EXCEPT ![c] =
       IF work = 0
         THEN [@ EXCEPT !.pc = "done", !.afterStop = StopReturned, !.afterFailure = FailureDone,
                        !.ret = [res |-> nil, err |-> errNotStarted]]
       ELSE IF ~bodyOK
         THEN [@ EXCEPT !.pc = "done", !.afterStop = StopReturned, !.afterFailure = FailureDone,
                        !.ret = [res |-> nil, err |-> errBodyRead]]
         ELSE [@ EXCEPT !.pc = "send", !.afterStop = StopReturned, !.afterFailure = FailureDone, !.ch = work]]
  /\ UNCHANGED <<work, chanState, MaxBatchSize, workGroup, workers, sends, stops, crashed>>

\* c.work <- &workRequest{...} on a channel that is closed: the send panics.
DoSendClosed(c) ==
  /\ ~crashed
  /\ UNCHANGED fb
  /\ calls[c].pc = "send"
  /\ calls[c].ch # 0
  /\ chanState[calls[c].ch] = "closed"
  /\ calls' = [calls EXCEPT ![c].pc = "panic"]
  /\ crashed' = TRUE
  /\ UNCHANGED <<work, chanState, MaxBatchSize, workGroup, workers, sends, stops>>

\* ------------------------------------------------------------------------
\* Client.Stop
\* ------------------------------------------------------------------------
\* StopClose stopping the timer of every worker itself.
StopCloseStopsTimer(s) ==
  /\ ~crashed
  /\ UNCHANGED fb
  /\ stops[s].pc = "idle"
  /\ \A t \in Stops : t < s => stops[t].pc # "idle"
  /\ IF work # 0 /\ chanState[work] = "open"
       THEN /\ chanState' = [chanState EXCEPT ![work] = "closed"]
            /\ stops' = [stops EXCEPT ![s].pc = "Wait", ![s].accepted = Accepted]
            /\ UNCHANGED crashed
       ELSE /\ stops' = [stops EXCEPT ![s].pc = "panic", ![s].accepted = Accepted]
            /\ crashed' = TRUE
            /\ UNCHANGED chanState
  /\ workers' = [k \in Starts |-> [workers[k] EXCEPT !.batchTimeout = FALSE]]
  /\ UNCHANGED <<work, MaxBatchSize, workGroup, calls, sends>>

\* close(c.work) of the s-th invocation of Stop: panics on the nil channel
\* and on a closed channel.
StopClose(s) ==
  /\ ~crashed
  /\ UNCHANGED fb
  /\ stops[s].pc = "idle"
  /\ \A t \in Stops : t < s => stops[t].pc # "idle"
  /\ IF work # 0 /\ chanState[work] = "open"
       THEN /\ chanState' = [chanState EXCEPT ![work] = "closed"]
            /\ stops' = [stops EXCEPT ![s].pc = "Wait", ![s].accepted = Accepted]
            /\ UNCHANGED crashed
       ELSE /\ stops' = [stops EXCEPT ![s].pc = "panic", ![s].accepted = Accepted]
            /\ crashed' = TRUE
            /\ UNCHANGED chanState
  /\ UNCHANGED <<work, MaxBatchSize, workGroup, workers, calls, sends>>

\* c.workGroup.Wait() returns when the counter is zero; Stop returns nil.
StopWait(s) ==
  /\ ~crashed
  /\ UNCHANGED fb
  /\ stops[s].pc = "Wait"
  /\ workGroup = 0
  /\ stops' = [stops EXCEPT ![s].pc = "returned"]
  /\ UNCHANGED <<work, chanState, MaxBatchSize, workGroup, workers, calls, sends, crashed>>

\* ------------------------------------------------------------------------
\* The specification.
\* ------------------------------------------------------------------------
Next ==
  \/ \E k \in 1..MaxStarts : Start(k)
  \/ \E k \in Starts : WorkerSelect(k)
  \/ \E k \in Starts : WorkerTimeout(k)
  \/ \E k \in Starts, c \in Calls : WorkerReceive(k, c)
  \/ \E k \in Starts : WorkerClosed(k)
  \/ \E d \in 1..Len(sends), ok \in BOOLEAN : SendBatchDo(d, ok)
  \/ \E d \in 1..Len(sends) : SendDeliver(d)
  \/ \E d \in 1..Len(sends) : SendDone(d)
  \/ \E c \in Calls, bodyOK \in BOOLEAN : DoBegin(c, bodyOK)
  \/ \E c \in Calls : DoSendClosed(c)
  \/ \E s \in Stops : StopClose(s)
  \/ \E s \in Stops : StopWait(s)

Spec == Init /\ [][Next]_vars

\* Fair scheduling of the goroutines: every step of the worker, of a send
\* and of a blocked caller that stays possible is eventually taken, the
\* armed timer fires and the transport call returns.  Invocations of Start,
\* Do and Stop are the environment's and are not forced.
Fairness ==
  /\ \A k \in Starts : WF_vars(WorkerSelect(k))
  /\ \A k \in Starts : WF_vars(WorkerTimeout(k))
  /\ \A k \in Starts : WF_vars(\E c \in Calls : WorkerReceive(k, c))
  /\ \A k \in Starts : WF_vars(WorkerClosed(k))
  /\ \A d \in 1..(MaxCalls + MaxStarts + 1) :
       /\ WF_vars(d <= Len(sends) /\ \E ok \in BOOLEAN : SendBatchDo(d, ok))
       /\ WF_vars(d <= Len(sends) /\ SendDeliver(d))
       /\ WF_vars(d <= Len(sends) /\ SendDone(d))
  /\ \A c \in Calls : WF_vars(DoSendClosed(c))
  /\ \A s \in Stops : WF_vars(StopWait(s))

FairSpec == Spec /\ Fairness

\* The scenario of one full batch and one call more: the client is configured
\* with MaxBatchSize 2 and started, MaxBatchSize + 1 calls are made with
\* readable bodies, Stop is not called, and the window is long enough for
\* all of them to be accepted before the timer fires.
ScenarioCalls == 1..(ConfiguredMaxBatchSize + 1)

InitScenario == Init /\ MaxBatchSize = ConfiguredMaxBatchSize

ScenarioDo(c) == work # 0 /\ DoBegin(c, TRUE)

ScenarioTimeout(k) ==
  /\ \A c \in ScenarioCalls : calls[c].pc \in {"wait", "done"}
  /\ WorkerTimeout(k)

NextScenario ==
  \/ Start(1)
  \/ WorkerSelect(1)
  \/ ScenarioTimeout(1)
  \/ \E c \in ScenarioCalls : WorkerReceive(1, c)
  \/ \E d \in 1..Len(sends), ok \in BOOLEAN : SendBatchDo(d, ok)
  \/ \E d \in 1..Len(sends) : SendDeliver(d)
  \/ \E d \in 1..Len(sends) : SendDone(d)
  \/ \E c \in ScenarioCalls : ScenarioDo(c)

SpecScenario == InitScenario /\ [][NextScenario]_vars

\* Calls for objects the Graph API has, does not have, or answers in a form
\* the caller cannot decode, made on a client that is started and not
\* stopped.
InitPerCall ==
  /\ work = 0
  /\ chanState = [k \in Starts |-> "none"]
  /\ MaxBatchSize \in {0, ConfiguredMaxBatchSize}
  /\ workGroup = 0
  /\ workers = [k \in Starts |-> idleWorker]
  /\ \E path \in [Calls -> Paths] :
       calls = [c \in Calls |-> [idleCall EXCEPT !.path = path[c]]]
  /\ sends = <<>>
  /\ stops = [s \in Stops |-> idleStop]
  /\ crashed = FALSE
  /\ fb = idleFb

NextPerCall ==
  \/ Start(1)
  \/ WorkerSelect(1)
  \/ WorkerTimeout(1)
  \/ \E c \in Calls : WorkerReceive(1, c)
  \/ \E d \in 1..Len(sends), ok \in BOOLEAN : SendBatchDo(d, ok)
  \/ \E d \in 1..Len(sends) : SendDeliver(d)
  \/ \E d \in 1..Len(sends) : SendDone(d)
  \/ \E c \in Calls : ScenarioDo(c)

SpecPerCall == InitPerCall /\ [][NextPerCall]_vars

\* A started client that is not stopped, under fair scheduling.
FairRun == Init /\ [][NextPerCall]_vars /\ Fairness

\* A started client whose server may answer a batch with a number of
\* sub-responses other than the number of sub-requests.
NextLen ==
  \/ Start(1)
  \/ WorkerSelect(1)
  \/ WorkerTimeout(1)
  \/ \E c \in Calls : WorkerReceive(1, c)
  \/ \E d \in 1..Len(sends), ok \in BOOLEAN : SendBatchDo(d, ok)
  \/ \E d \in 1..Len(sends), n \in 0..(MaxCalls + 1) : SendBatchDoLen(d, n)
  \/ \E d \in 1..Len(sends) : SendDeliver(d)
  \/ \E d \in 1..Len(sends) : SendIndexPanic(d)
  \/ \E d \in 1..Len(sends) : SendDone(d)
  \/ \E c \in Calls : ScenarioDo(c)

SpecLen == Init /\ [][NextLen]_vars

\* The restart scenario: Start is invoked once more, and one Do fewer is made.
Restart == Start(MaxStarts + 1)

NextRestart ==
  \/ \E k \in 1..MaxStarts : Start(k)
  \/ Restart
  \/ \E k \in Starts : WorkerSelect(k)
  \/ \E k \in Starts : WorkerTimeout(k)
  \/ \E k \in Starts, c \in Calls : WorkerReceive(k, c)
  \/ \E k \in Starts : WorkerClosed(k)
  \/ \E d \in 1..Len(sends), ok \in BOOLEAN : SendBatchDo(d, ok)
  \/ \E d \in 1..Len(sends) : SendDeliver(d)
  \/ \E d \in 1..Len(sends) : SendDone(d)
  \/ \E c \in 1..(MaxCalls - 1), bodyOK \in BOOLEAN : DoBegin(c, bodyOK)
  \/ \E c \in Calls : DoSendClosed(c)
  \/ \E s \in 1..(MaxStops - 1) : StopClose(s)
  \/ \E s \in Stops : StopWait(s)

SpecRestart == Init /\ [][NextRestart]_vars

TypeOK ==
  /\ work \in 0..(MaxStarts + 1)
  /\ workGroup \in Nat
  /\ crashed \in BOOLEAN

\* ------------------------------------------------------------------------
\* Properties.
\* ------------------------------------------------------------------------
\* The positions <<d, i>> at which call c stands in a dispatched batch.
Dispatched(c) ==
  UNION {{<<d, i>> : i \in {j \in 1..Len(sends[d].rrs) : sends[d].rrs[j] = c}} :
         d \in 1..Len(sends)}
\* The writes made so far to the result channel of call c: send d has
\* written the channels of the positions before sends[d].i.
Writes(c) == {p \in Dispatched(c) : p[2] < sends[p[1]].i}

C3_PositionalDemux ==
  \A d \in 1..Len(sends) :
    (sends[d].pc # "BatchDo" /\ sends[d].err = nil
       /\ Len(sends[d].res) = Len(sends[d].rrs)) =>
      \A i \in 1..Len(sends[d].rrs) :
        i < sends[d].i =>
          LET c == sends[d].rrs[i]
          IN /\ calls[c].wr = workResponse(sends[d].res[i], nil)
             /\ calls[c].wr.Response = Response(newRequest(c))
             /\ calls[c].ret = [res |-> Response(newRequest(c)), err |-> nil]

\* A batch of two calls has been answered successfully and both callers
\* have their result.
C3_Witness ==
  \E d \in 1..Len(sends) :
    /\ sends[d].pc = "done" /\ sends[d].err = nil /\ Len(sends[d].rrs) = 2
    /\ \A i \in 1..2 : sends[d].rrs[i] \in Resolved

\* C4: when the composite call of a batch fails, every call of the batch
\* receives that one error value and no sub-response, and Do returns it;
\* the calls of a batch whose composite call succeeded receive no error.
C4_TransportError ==
  \A d \in 1..Len(sends) :
    \A i \in 1..Len(sends[d].rrs) :
      i < sends[d].i =>
        LET c == sends[d].rrs[i]
        IN IF sends[d].err # nil
             THEN /\ sends[d].err = transportError(d)
                  /\ calls[c].wr = workResponse(nil, sends[d].err)
                  /\ calls[c].ret = [res |-> nil, err |-> sends[d].err]
             ELSE /\ calls[c].wr.Error = nil
                  /\ calls[c].wr.Response # nil

\* The composite call of a batch of two failed and both callers have the
\* error, while another batch was answered successfully.
C4_Witness ==
  \E d, e \in 1..Len(sends) :
    /\ sends[d].pc = "done" /\ sends[d].err # nil /\ Len(sends[d].rrs) = 2
    /\ sends[e].pc = "done" /\ sends[e].err = nil /\ Len(sends[e].rrs) = 1

C2_AcceptedResolved == \A c \in Calls : (c \in Accepted) ~> (c \in Resolved)

\* C5: a Stop that has returned leaves unresolved none of the calls that
\* were accepted when it was invoked.
C5_StopWaits ==
  \A s \in Stops : stops[s].pc = "returned" => stops[s].accepted \subseteq Resolved

\* C6: a Do that was invoked before Stop returned never panics.
C6_RaceNoPanic == \A c \in Calls : calls[c].pc = "panic" => calls[c].afterStop

\* C7: a Do invoked after Stop has returned fails at once: it returns an
\* error and no response, is never left sending to the worker and never
\* panics.
C7_DoAfterStop ==
  \A c \in Calls :
    (calls[c].afterStop /\ calls[c].pc # "idle") =>
      /\ calls[c].pc = "done"
      /\ calls[c].ch = 0
      /\ calls[c].ret # nil

C9_StartOnce ==
  /\ Cardinality({k \in Starts : chanState[k] # "none"}) <= 1
  /\ Cardinality({k \in Starts : workers[k].pc # "none"}) <= 1
  /\ work \in {0, 1}

\* The calls worker k has accepted and not yet handed to a send.
Pending(k) == {c \in Accepted : calls[c].worker = k /\ Dispatched(c) = {}}
\* The calls of rrs stand in the order in which the worker accepted them.
AcceptOrder(rrs) ==
  \A i, j \in 1..Len(rrs) : i < j => calls[rrs[i]].seq < calls[rrs[j]].seq

\* C11: while the worker waits in its select, its accumulator holds exactly
\* the calls accepted since the last flush, in the order of acceptance and
\* fewer than MaxBatchSize of them, and the timer is armed exactly when the
\* accumulator is not empty; a batch dispatched by the timer carries N
\* sub-requests with 1 <= N < MaxBatchSize, those of its N calls in the order
\* of acceptance, and leaves no accepted call behind in the accumulator.
C11_TimeTrigger ==
  /\ \A k \in Starts :
       workers[k].pc = "select" =>
         /\ {workers[k].batch[i] : i \in 1..Len(workers[k].batch)} = Pending(k)
         /\ Len(workers[k].batch) = Cardinality(Pending(k))
         /\ Len(workers[k].batch) < MaxBatchSize
         /\ AcceptOrder(workers[k].batch)
         /\ workers[k].batchTimeout <=> workers[k].batch # <<>>
  /\ \A d \in 1..Len(sends) :
       sends[d].trigger = "timeout" =>
         /\ 1 <= Len(sends[d].rrs)
         /\ Len(sends[d].rrs) < MaxBatchSize
         /\ AcceptOrder(sends[d].rrs)
         /\ sends[d].req = [i \in 1..Len(sends[d].rrs) |-> newRequest(sends[d].rrs[i])]

\* The timer has dispatched two calls together, below the size limit, and
\* both have their results.
C11_Witness ==
  \E d \in 1..Len(sends) :
    /\ sends[d].trigger = "timeout"
    /\ sends[d].pc = "done"
    /\ Len(sends[d].rrs) = 2
    /\ Len(sends[d].rrs) < MaxBatchSize
    /\ \A i \in 1..2 : sends[d].rrs[i] \in Resolved

\* C12: the composite request of every dispatched batch lists the
\* sub-requests of its calls in the order in which the worker accepted them,
\* the transport result of the batch is the result of that one request, and
\* BatchDo is called exactly once for the batch whether it succeeds or fails:
\* not at all before the call returns, once from then on.
C12_OneOrderedInvocation ==
  \A d \in 1..Len(sends) :
    /\ AcceptOrder(sends[d].rrs)
    /\ sends[d].req = [i \in 1..Len(sends[d].rrs) |-> newRequest(sends[d].rrs[i])]
    /\ sends[d].tries = IF sends[d].pc = "BatchDo" THEN 0 ELSE 1
    /\ (sends[d].pc # "BatchDo" /\ sends[d].err = nil) =>
         sends[d].res = BatchDo(sends[d].req)
    /\ \A e \in 1..Len(sends) :
         (\E i \in 1..Len(sends[d].rrs) : \E j \in 1..Len(sends[e].rrs) :
            sends[d].rrs[i] = sends[e].rrs[j]) => d = e

\* A batch of two calls whose composite call failed has finished, and so
\* has a batch that succeeded.
C12_Witness ==
  /\ \E d \in 1..Len(sends) :
       sends[d].pc = "done" /\ sends[d].err # nil /\ Len(sends[d].rrs) = 2
  /\ \E d \in 1..Len(sends) :
       sends[d].pc = "done" /\ sends[d].err = nil /\ Len(sends[d].rrs) >= 1

\* The scenario can take no further step.
ScenarioEnded == ~ENABLED NextScenario

\* C13: in the scenario of MaxBatchSize 2 and three calls there are never
\* more than two sends; the first is fired by the size trigger and carries
\* the first two accepted calls in order, the second is fired by the timer
\* and carries the third accepted call alone; and when the run has ended
\* there are exactly two sends, BatchDo was called once for each, and every
\* one of the three callers has received its result and returned.
C13_Scenario ==
  /\ Len(sends) <= 2
  /\ Len(sends) >= 1 =>
       /\ sends[1].trigger = "size"
       /\ Len(sends[1].rrs) = ConfiguredMaxBatchSize
       /\ \A i \in 1..Len(sends[1].rrs) : calls[sends[1].rrs[i]].seq = i
  /\ Len(sends) >= 2 =>
       /\ sends[2].trigger = "timeout"
       /\ Len(sends[2].rrs) = 1
       /\ calls[sends[2].rrs[1]].seq = ConfiguredMaxBatchSize + 1
  /\ ScenarioEnded =>
       /\ Len(sends) = 2
       /\ \A d \in 1..Len(sends) : sends[d].pc = "done" /\ sends[d].tries = 1
       /\ \A c \in ScenarioCalls :
            /\ c \in Resolved
            /\ calls[c].pc = "done"
            /\ calls[c].ret = DoReturn(calls[c].wr)

\* The scenario has ended after its two sends.
C13_Witness ==
  /\ ScenarioEnded
  /\ MaxBatchSize = ConfiguredMaxBatchSize
  /\ Len(sends) = 2
  /\ \A c \in ScenarioCalls : c \in Resolved

\* The lifecycle state of the client, read off its fields: 0 NotStarted
\* (c.work is nil), 1 Running (c.work is open), 2 Stopping (c.work is closed
\* and no Stop has returned), 3 Stopped (a Stop has returned).
LifecycleRank ==
  IF work = 0 THEN 0
  ELSE IF chanState[work] = "open" THEN 1
  ELSE IF ~StopReturned THEN 2
  ELSE 3

\* C14: no step moves the lifecycle state of the client backwards along
\* NotStarted, Running, Stopping, Stopped, and the step that makes it Stopped
\* is taken only when every accepted call has its result.
C14_LifecycleMonotone ==
  [][/\ LifecycleRank' >= LifecycleRank
     /\ (LifecycleRank # 3 /\ LifecycleRank' = 3) => Accepted \subseteq Resolved]_vars

\* C15: no invocation of Stop on a started client panics.
C15_StopManyTimes ==
  \A s \in Stops : stops[s].pc = "panic" => chanState[1] = "none"

\* C16: a Stop invoked on a client that was never started returns in that
\* step, without a panic and without waiting.
C16_StopNeverStarted ==
  [][\A s \in Stops :
       (work = 0 /\ stops[s].pc = "idle" /\ stops'[s].pc # "idle") =>
         (stops'[s].pc = "returned" /\ ~crashed')]_vars

\* C17: a Do on a client that was never started is not turned away: it does
\* not return errNotStarted.
C17_LazyStart ==
  [][\A c \in Calls :
       (work = 0 /\ calls[c].pc = "idle" /\ calls'[c].pc = "done") =>
         calls'[c].ret.err # errNotStarted]_vars

\* C18: when the composite call of a batch has succeeded, every caller of
\* the batch is handed the sub-response of its own request as a response
\* and never an error, whatever its status and whatever the sub-responses of
\* the other callers are; Do then returns that response, with a nil error
\* exactly to the callers whose own sub-response has a success status and a
\* decodable body.
C18_PerCallIsolation ==
  \A c \in Resolved :
    (calls[c].from # 0 /\ sends[calls[c].from].err = nil) =>
      /\ calls[c].wr = workResponse(Response(newRequestFor(c, calls[c].path)), nil)
      /\ calls[c].pc = "done" =>
           /\ calls[c].ret.res = Response(newRequestFor(c, calls[c].path))
           /\ calls[c].ret.err = nil <=> calls[c].path = "found"
           /\ calls[c].path = "missing" =>
                calls[c].ret.err = [error |-> "api", code |-> 404]
           /\ calls[c].path = "garbled" =>
                calls[c].ret.err = [error |-> "decode", code |-> 200]

\* A batch whose composite call succeeded has finished with a caller whose
\* sub-response has status 404, a caller whose sub-response it cannot
\* decode, and a caller who got a nil error.
C18_Witness ==
  \E d \in 1..Len(sends) :
    /\ sends[d].pc = "done"
    /\ sends[d].err = nil
    /\ \E i, j, k \in 1..Len(sends[d].rrs) :
         /\ calls[sends[d].rrs[i]].ret.err = [error |-> "api", code |-> 404]
         /\ calls[sends[d].rrs[j]].ret.err = [error |-> "decode", code |-> 200]
         /\ calls[sends[d].rrs[k]].ret.err = nil
         /\ calls[sends[d].rrs[k]].ret.res.Code = 200

\* C19: a send whose composite call returned without error holds exactly as
\* many sub-responses as its batch has calls, no send reads a sub-response
\* beyond those returned, and a send that has finished has left no caller
\* without a result.
C19_LengthEquality ==
  \A d \in 1..Len(sends) :
    /\ sends[d].pc # "panic"
    /\ (sends[d].pc \in {"deliver", "done"} /\ sends[d].err = nil) =>
         Len(sends[d].res) = Len(sends[d].rrs)
    /\ sends[d].pc = "done" =>
         \A i \in 1..Len(sends[d].rrs) : sends[d].rrs[i] \in Resolved

\* The effect of a step on the coordinator when it is the step of a send,
\* and on a call begun after a failed batch when it hands the call its
\* result.
SendStepEffect ==
  /\ \A d \in 1..Len(sends) :
       sends'[d] # sends[d] =>
         /\ UNCHANGED <<work, chanState, MaxBatchSize, stops, crashed>>
         /\ \A k \in Starts :
              /\ workers'[k].batch = workers[k].batch
              /\ workers'[k].batchTimeout = workers[k].batchTimeout
              /\ workers'[k].ch = workers[k].ch
              /\ workers'[k].pc # workers[k].pc =>
                   (sends[d].by = k /\ sends'[d].pc = "done")
         /\ workGroup' = IF sends'[d].pc = "done" THEN workGroup - 1 ELSE workGroup
  /\ \A c \in Calls :
       (calls[c].afterFailure /\ calls[c].wr = nil /\ calls'[c].wr # nil) =>
         LET e == calls'[c].from
         IN /\ e \in 1..Len(sends)
            /\ \E i \in 1..Len(sends[e].rrs) : sends[e].rrs[i] = c
            /\ sends[e].err \in {nil, transportError(e)}
            /\ calls'[c].wr =
                 IF sends[e].err = nil
                   THEN workResponse(Response(newRequest(c)), nil)
                   ELSE workResponse(nil, transportError(e))

\* C20: a step of a send, whether its composite call failed or succeeded,
\* leaves the intake channel, the lifecycle, the accumulator and the timer
\* of every worker as they are and gives the wait group back exactly when
\* the send finishes; a call begun after a failed batch has finished is
\* handed the outcome of the batch that carries it: its own sub-response if
\* that batch's composite call succeeded, that batch's own error if not; and
\* on a client that is not stopped every such call that has submitted its
\* request is eventually resolved and returns.
C20_FailureLeavesOperational ==
  /\ [][SendStepEffect]_vars
  /\ \A c \in Calls :
       (calls[c].afterFailure /\ calls[c].pc = "send") ~>
         (calls[c].pc = "done" /\ c \in Resolved)

\* A call begun after a failed batch had finished has been resolved with
\* its own sub-response by a later batch, and another by a later batch that
\* failed in its turn.
C20_Witness ==
  /\ \E c \in Calls :
       /\ calls[c].afterFailure
       /\ calls[c].pc = "done"
       /\ calls[c].ret = [res |-> Response(newRequest(c)), err |-> nil]
  /\ \E c \in Calls :
       /\ calls[c].afterFailure
       /\ calls[c].pc = "done"
       /\ calls[c].from # 0
       /\ calls[c].ret = [res |-> nil, err |-> transportError(calls[c].from)]

\* The sends whose transport call is outstanding or whose results are
\* being delivered.
InDispatch == {d \in 1..Len(sends) : sends[d].pc \in {"BatchDo", "deliver"}}

\* C21: while batches are in dispatch and the intake channel the worker
\* reads is open, the worker is in its select and not inside a send: it can
\* receive every call that is blocked on its channel, and it can flush when
\* its timer is armed.
C21_DispatchNeverBlocks ==
  \A k \in Starts :
    (/\ ~crashed
     /\ workers[k].pc \notin {"none", "spawned", "exited"}
     /\ chanState[workers[k].ch] = "open"
     /\ InDispatch # {}) =>
      /\ workers[k].pc = "select"
      /\ \A c \in Calls :
           (calls[c].pc = "send" /\ calls[c].ch = workers[k].ch) =>
             ENABLED WorkerReceive(k, c)
      /\ workers[k].batchTimeout => ENABLED WorkerTimeout(k)

\* Two batches are in dispatch at once, each with its transport call
\* outstanding, while the worker holds a third call in its accumulator with
\* the timer armed.
C21_Witness ==
  /\ \E d, e \in 1..Len(sends) :
       d # e /\ sends[d].pc = "BatchDo" /\ sends[e].pc = "BatchDo"
  /\ \E k \in Starts :
       /\ workers[k].pc = "select"
       /\ chanState[workers[k].ch] = "open"
       /\ workers[k].batch # <<>>
       /\ workers[k].batchTimeout
       /\ ENABLED WorkerTimeout(k)

\* The calls held by the accumulator of some worker.
Accumulated ==
  UNION {{workers[k].batch[i] : i \in 1..Len(workers[k].batch)} : k \in Starts}
\* The calls whose send on the intake channel has completed and which are
\* neither in an accumulator nor in a dispatched batch: the content of the
\* intake.
InIntake == {c \in Accepted : c \notin Accumulated /\ Dispatched(c) = {}}

C23_DetachedBatchFrozen ==
  [][/\ Len(sends') >= Len(sends)
     /\ \A d \in 1..Len(sends) :
          /\ sends'[d].rrs = sends[d].rrs
          /\ sends'[d].req = sends[d].req
          /\ sends'[d].trigger = sends[d].trigger
     /\ Len(sends') > Len(sends) =>
          /\ Len(sends') = Len(sends) + 1
          /\ \A k \in Starts :
               workers'[k] # workers[k] =>
                 /\ \/ sends'[Len(sends')].rrs = workers[k].batch
                    \/ \E c \in Calls :
                         /\ calls[c].pc = "send"
                         /\ calls'[c].pc = "wait"
                         /\ sends'[Len(sends')].rrs = Append(workers[k].batch, c)
                 /\ workers'[k].batch = <<>> \/ workers'[k].pc = "send"]_vars

\* While the first batch handed over still waits for its transport call
\* with its calls as they were, the worker has flushed a second batch and
\* holds a later call in its accumulator.
C23_Witness ==
  /\ Len(sends) >= 2
  /\ sends[1].pc = "BatchDo"
  /\ sends[1].rrs # <<>>
  /\ sends[2].rrs # <<>>
  /\ \A i \in 1..Len(sends[1].rrs) : Cardinality(Dispatched(sends[1].rrs[i])) = 1
  /\ \E k \in Starts :
       /\ workers[k].pc = "select"
       /\ workers[k].batch # <<>>
       /\ \A i \in 1..Len(workers[k].batch) : Dispatched(workers[k].batch[i]) = {}

\* C24: a step that changes the accumulator or the timer of a worker is a
\* step of that worker at its select: it is not a step of Start, of Stop or
\* of a send, and the only caller it involves is one whose request it
\* receives from the intake channel in that step.
C24_SingleWriter ==
  [][\A k \in Starts :
       (\/ workers'[k].batch # workers[k].batch
        \/ workers'[k].batchTimeout # workers[k].batchTimeout) =>
         /\ workers[k].pc = "select"
         /\ workers'[k].pc = "select"
         /\ UNCHANGED <<work, chanState, MaxBatchSize, stops, crashed>>
         /\ \A d \in 1..Len(sends) : sends'[d] = sends[d]
         /\ \A j \in Starts : j # k => workers'[j] = workers[j]
         /\ \A c \in Calls :
              calls'[c] # calls[c] =>
                /\ calls[c].pc = "send"
                /\ calls[c].ch = workers[k].ch
                /\ calls'[c].pc = "wait"
                /\ \/ \E i \in 1..Len(workers'[k].batch) : workers'[k].batch[i] = c
                   \/ /\ Len(sends') = Len(sends) + 1
                      /\ sends'[Len(sends')].rrs = Append(workers[k].batch, c)]_vars

\* A worker holds two calls in its accumulator with the timer armed while
\* a send is delivering results and a Stop has not yet been made.
C24_Witness ==
  /\ \E k \in Starts :
       /\ workers[k].pc = "select"
       /\ Len(workers[k].batch) = 2
       /\ workers[k].batchTimeout
  /\ \E d \in 1..Len(sends) : sends[d].pc = "deliver" /\ sends[d].i > 1
  /\ \A s \in Stops : stops[s].pc = "idle"

\* C30: while a worker waits in its select its timer is armed exactly when
\* its accumulator is not empty, and the armed timer is the one started for
\* the first call of the accumulator; a batch flushed by the timer is
\* flushed by the timer started for its own first call, and a batch flushed
\* on size or on close by no timer; and a worker that has made its flush on
\* close makes no step of its loop again.
C30_TimerIffNonEmpty ==
  /\ [](\A k \in Starts :
          workers[k].pc = "select" =>
            /\ workers[k].batchTimeout <=> workers[k].batch # <<>>
            /\ workers[k].armedBy =
                 IF workers[k].batch = <<>> THEN 0 ELSE workers[k].batch[1])
  /\ [](\A d \in 1..Len(sends) :
          IF sends[d].trigger = "timeout"
            THEN sends[d].rrs # <<>> /\ sends[d].timer = sends[d].rrs[1]
            ELSE sends[d].timer = 0)
  /\ [][\A k \in Starts :
          workers[k].pc \in {"send", "exited"} =>
            /\ workers'[k].pc \in {"send", "exited"}
            /\ workers'[k].batch = workers[k].batch
            /\ workers'[k].batchTimeout = workers[k].batchTimeout]_vars

\* After a flush on size the worker has accepted a later call, whose timer
\* has flushed it alone, and has since made its flush on close.
C30_Witness ==
  /\ Len(sends) >= 3
  /\ sends[1].trigger = "size" /\ sends[1].timer = 0
  /\ sends[2].trigger = "timeout" /\ sends[2].timer = sends[2].rrs[1]
  /\ sends[3].trigger = "closed"
  /\ \E k \in Starts : workers[k].pc = "exited"

\* ------------------------------------------------------------------------
\* Package fbapi: Client.Do and UnmarshalResponse (src/client.go).
\* ------------------------------------------------------------------------
\* A url.URL is a record of its Scheme, Host, Path and RawQuery.  A path is
\* the sequence of the pieces of its string between the "/" characters, so
\* "" is <<>>, "/" is <<"", "">>, "/me" is <<"", "me">> and "0" is <<"0">>;
\* a query is the sequence of its key and value pairs.
URL(scheme, host, path, query) ==
  [Scheme |-> scheme, Host |-> host, Path |-> path, RawQuery |-> query]

\* var DefaultBaseURL
DefaultBaseURL == URL("https", "graph.facebook.com", <<"", "">>, <<>>)

\* url.URL.IsAbs
IsAbs(u) == u.Scheme # ""

\* net/url resolvePath for paths without dot segments: the reference path
\* replaces what follows the last "/" of the base path, and the result is
\* rooted.
resolvePath(base, ref) ==
  LET full == IF ref = <<>> THEN base
              ELSE IF ref[1] # ""
                THEN (IF base = <<>> THEN <<>> ELSE SubSeq(base, 1, Len(base) - 1)) \o ref
                ELSE ref
  IN IF full = <<>> THEN <<>>
     ELSE IF full[1] # "" THEN <<"">> \o full
     ELSE full

\* url.URL.ResolveReference
ResolveReference(u, ref) ==
  IF ref.Scheme # "" \/ ref.Host # ""
    THEN URL(IF ref.Scheme = "" THEN u.Scheme ELSE ref.Scheme, ref.Host,
             resolvePath(ref.Path, <<>>), ref.RawQuery)
    ELSE URL(u.Scheme, u.Host, resolvePath(u.Path, ref.Path),
             IF ref.Path = <<>> /\ ref.RawQuery = <<>> THEN u.RawQuery
             ELSE ref.RawQuery)

\* baseURL always taking the default base.
baseURLDefaultOnly(BaseURL) == DefaultBaseURL

\* The base Do resolves against, lines 245-259: c.BaseURL, or DefaultBaseURL
\* when c.BaseURL is nil.
baseURL(BaseURL) == IF BaseURL = nil THEN DefaultBaseURL ELSE BaseURL

\* req.URL after lines 245-259 of Do.
requestURL(BaseURL, reqURL) ==
  IF reqURL = nil THEN baseURL(BaseURL)
  ELSE IF ~IsAbs(reqURL) THEN ResolveReference(baseURL(BaseURL), reqURL)
  ELSE reqURL

\* What the body of an http.Response may be: a JSON object the result
\* decodes, the JSON of an API error, bytes that are not JSON, or a body
\* whose read fails.
Bodies == {"object", "error", "garbage", "unreadable"}
\* Status codes around the two limits of UnmarshalResponse.
StatusCodes == {199, 200, 399, 400, 404}

\* statusIsError with > 400 for > 399.
statusIsErrorStrict(code) == code > 400 \/ code < 200

\* UnmarshalResponse, line 295: res.StatusCode > 399 || res.StatusCode < 200.
statusIsError(code) == code > 399 \/ code < 200

\* UnmarshalResponse, lines 292-325: the error it returns for the response
\* res and the result (nil, or a value to decode into), nil for none.
UnmarshalResponse(res, result) ==
  IF statusIsError(res.StatusCode)
    THEN IF res.Body = "unreadable" THEN [error |-> "read", response |-> res]
         ELSE IF res.Body = "garbage" THEN [error |-> "json", response |-> res]
         ELSE [error |-> "api", body |-> res.Body, response |-> res]
    ELSE IF res.Body = "unreadable" THEN [error |-> "read", response |-> res]
         ELSE IF result # nil /\ res.Body = "garbage"
           THEN [error |-> "json", response |-> res]
           ELSE nil

\* The variables of the batching client, which package fbapi does not
\* touch.
batchVars ==
  <<work, chanState, MaxBatchSize, workGroup, workers, calls, sends, stops, crashed>>

\* The batching client as constructed, with nothing invoked on it.
BatchIdle ==
  /\ work = 0
  /\ chanState = [k \in Starts |-> "none"]
  /\ MaxBatchSize = 0
  /\ workGroup = 0
  /\ workers = [k \in Starts |-> idleWorker]
  /\ calls = [c \in Calls |-> idleCall]
  /\ sends = <<>>
  /\ stops = [s \in Stops |-> idleStop]
  /\ crashed = FALSE

\* The base URLs a client is configured with and the URLs a request comes
\* with: nil, relative with and without a leading "/", with a query only,
\* with a host but no scheme, and absolute.
BaseURLs ==
  {nil,
   URL("https", "graph.facebook.com", <<"", "obj">>, <<>>),
   URL("https", "graph.facebook.com", <<"", "obj", "">>, <<>>),
   URL("http", "example.com", <<>>, <<<<"locale", "en">>>>)}
RequestURLs ==
  {nil,
   URL("", "", <<"0">>, <<>>),
   URL("", "", <<"", "me">>, <<<<"access_token", "t1">>>>),
   URL("", "", <<>>, <<<<"fields", "id">>>>),
   URL("", "", <<>>, <<>>),
   URL("", "other.example", <<"", "x">>, <<>>),
   URL("https", "other.example", <<"x", "y">>, <<>>),
   URL("http", "graph.facebook.com", <<"", "me">>, <<>>)}

\* An invocation of Client.Do with its arguments, before its first line.
InitClientDo ==
  /\ BatchIdle
  /\ \E base \in BaseURLs, u \in RequestURLs, host \in {"", "set.example"},
        result \in {nil, [result |-> "map"]} :
       fb = [op |-> "Do", pc |-> "start", BaseURL |-> base, argURL |-> u,
             URL |-> u, Host |-> host, result |-> result, res |-> nil,
             ret |-> nil]

\* Do, lines 241-267: the request URL is resolved and req.Host filled in.
ClientDoResolve ==
  /\ fb.op = "Do"
  /\ fb.pc = "start"
  /\ LET u == requestURL(fb.BaseURL, fb.URL)
     IN fb' = [fb EXCEPT !.pc = "RoundTrip", !.URL = u,
                         !.Host = IF fb.Host = "" THEN u.Host ELSE fb.Host]
  /\ UNCHANGED batchVars

\* Do, lines 269-272: c.transport().RoundTrip(req) fails, or answers with a
\* response of the given status and body.
ClientDoRoundTrip(ok, code, body) ==
  /\ fb.op = "Do"
  /\ fb.pc = "RoundTrip"
  /\ fb' = IF ok
             THEN [fb EXCEPT !.pc = "Unmarshal",
                    !.res = [StatusCode |-> code, Body |-> body, Request |-> fb.URL]]
             ELSE [fb EXCEPT !.pc = "returned",
                    !.ret = [res |-> nil, err |-> [error |-> "RoundTrip"]]]
  /\ UNCHANGED batchVars

\* Do, lines 274-277.
ClientDoUnmarshal ==
  /\ fb.op = "Do"
  /\ fb.pc = "Unmarshal"
  /\ fb' = [fb EXCEPT !.pc = "returned",
                      !.ret = [res |-> fb.res,
                               err |-> UnmarshalResponse(fb.res, fb.result)]]
  /\ UNCHANGED batchVars

NextClientDo ==
  \/ ClientDoResolve
  \/ \E ok \in BOOLEAN, code \in StatusCodes, body \in Bodies :
       ClientDoRoundTrip(ok, code, body)
  \/ ClientDoUnmarshal

SpecClientDo == InitClientDo /\ [][NextClientDo]_vars

\* C25: Do returns a nil response with an error when RoundTrip fails; the
\* response with an error when its status is below 200 or above 399, when
\* the read of its body fails, or when the body is decoded into a result
\* and is not JSON; the response with a nil error otherwise; and never a
\* nil response with a nil error.
C25_DoResults ==
  (fb.op = "Do" /\ fb.pc = "returned") =>
    /\ ~(fb.ret.res = nil /\ fb.ret.err = nil)
    /\ fb.res = nil => (fb.ret.res = nil /\ fb.ret.err # nil)
    /\ fb.res # nil =>
         /\ fb.ret.res = fb.res
         /\ fb.ret.err # nil <=>
              \/ fb.res.StatusCode < 200
              \/ fb.res.StatusCode > 399
              \/ fb.res.Body = "unreadable"
              \/ fb.result # nil /\ fb.res.Body = "garbage"

\* Do has returned the response of status 400 together with an error.
C25_Witness ==
  /\ fb.op = "Do"
  /\ fb.pc = "returned"
  /\ fb.ret.res # nil
  /\ fb.ret.res.StatusCode = 400
  /\ fb.ret.res.Body = "object"
  /\ fb.ret.err # nil

\* C26: the URL Do sends the request to is the client's BaseURL, or
\* https://graph.facebook.com/ when BaseURL is nil, if the request came
\* without a URL; the request's URL unchanged if it is absolute; and
\* otherwise the request's URL resolved against that base: with the scheme
\* of the base, the host of the base unless the URL names one, the path of
\* the URL if it starts with "/", the path of the base with what follows
\* its last "/" replaced by the path of the URL if it does not, and the
\* path of the base if the URL has none.
C26_RequestURL ==
  (fb.op = "Do" /\ fb.pc # "start") =>
    LET base == IF fb.BaseURL = nil
                  THEN URL("https", "graph.facebook.com", <<"", "">>, <<>>)
                  ELSE fb.BaseURL
        a == fb.argURL
        u == fb.URL
    IN /\ a = nil => u = base
       /\ (a # nil /\ a.Scheme # "") => u = a
       /\ (a # nil /\ a.Scheme = "") =>
            /\ u.Scheme = base.Scheme
            /\ u.Host = IF a.Host # "" THEN a.Host ELSE base.Host
            /\ (a.Host = "" /\ a.Path = <<>>) =>
                 /\ u.Path = base.Path
                 /\ u.RawQuery = IF a.RawQuery = <<>> THEN base.RawQuery
                                 ELSE a.RawQuery
            /\ a.Path # <<>> =>
                 /\ u.RawQuery = a.RawQuery
                 /\ u.Path[1] = ""
                 /\ (a.Path[1] = "" \/ a.Host # "") => u.Path = a.Path
                 /\ (a.Path[1] # "" /\ a.Host = "") =>
                      u.Path = (IF base.Path = <<>> THEN <<"">>
                                ELSE SubSeq(base.Path, 1, Len(base.Path) - 1))
                               \o a.Path

\* The request for the relative URL "0" of a client whose BaseURL has the
\* path "/obj/" goes to "/obj/0" on the host of the BaseURL.
C26_Witness ==
  /\ fb.op = "Do"
  /\ fb.pc = "returned"
  /\ fb.BaseURL # nil
  /\ fb.argURL # nil
  /\ fb.argURL.Path = <<"0">>
  /\ fb.URL = URL("https", "graph.facebook.com", <<"", "obj", "0">>, <<>>)

\* ------------------------------------------------------------------------
\* Package fbapi: Params (src/unnamed/part_004).
\* ------------------------------------------------------------------------
\* A url.Values maps each key to the sequence of its values, <<>> for a key
\* it does not have.
Keys == {"limit", "offset", "fields", "access_token", "date_format"}
\* v = make(url.Values)
makeValues == [k \in Keys |-> <<>>]
\* url.Values.Add and url.Values.Set
Add(v, key, value) == [v EXCEPT ![key] = Append(v[key], value)]
Set(v, key, value) == [v EXCEPT ![key] = <<value>>]

\* strconv.FormatUint(n, 10): the decimal digits of n.
RECURSIVE FormatUint(_)
FormatUint(n) == IF n < 10 THEN <<n>> ELSE FormatUint(n \div 10) \o <<n % 10>>

\* strings.Join(p, ",")
RECURSIVE Join(_)
Join(p) ==
  IF p = <<>> THEN <<>>
  ELSE IF Len(p) = 1 THEN p
  ELSE <<p[1], ",">> \o Join(Tail(p))

\* paramLimitSet adding nothing for the limit 0.
paramLimitSetSkipsZero(p, v) ==
  [v |-> IF p.n # 0 THEN Add(v, "limit", FormatUint(p.n)) ELSE v, err |-> nil]

\* paramLimit.Set, lines 28-31
paramLimitSet(p, v) == [v |-> Add(v, "limit", FormatUint(p.n)), err |-> nil]

\* paramOffset.Set, lines 40-45
paramOffsetSet(p, v) ==
  [v |-> IF p.n # 0 THEN Add(v, "offset", FormatUint(p.n)) ELSE v, err |-> nil]

\* paramFields.Set, lines 55-60
paramFieldsSet(p, v) ==
  [v |-> IF Len(p.fields) > 0 THEN Set(v, "fields", Join(p.fields)) ELSE v, err |-> nil]

\* paramAccessToken.Set, lines 69-74
paramAccessTokenSet(p, v) ==
  [v |-> IF p.s # "" THEN Set(v, "access_token", p.s) ELSE v, err |-> nil]

\* paramDateFormat.Set, lines 83-88
paramDateFormatSet(p, v) ==
  [v |-> IF p.s # "" THEN Add(v, "date_format", p.s) ELSE v, err |-> nil]

\* A Param whose Set fails, as paramWithError of params_test.go.
paramWithErrorSet(p, v) == [v |-> v, err |-> [error |-> p.message]]

\* p.Set(v) for a Param p of any of the types.
ParamSet(p, v) ==
  CASE p.type = "paramLimit"       -> paramLimitSet(p, v)
    [] p.type = "paramOffset"      -> paramOffsetSet(p, v)
    [] p.type = "paramFields"      -> paramFieldsSet(p, v)
    [] p.type = "paramAccessToken" -> paramAccessTokenSet(p, v)
    [] p.type = "paramDateFormat"  -> paramDateFormatSet(p, v)
    [] p.type = "paramWithError"   -> paramWithErrorSet(p, v)

\* The Params of the calls: each type with its zero value and with other
\* values.
ParamLimit(limit) == [type |-> "paramLimit", n |-> limit]
ParamOffset(offset) == [type |-> "paramOffset", n |-> offset]
ParamFields(fields) == [type |-> "paramFields", fields |-> fields]
ParamAccessToken(token) == [type |-> "paramAccessToken", s |-> token]
ParamDateFormat(format) == [type |-> "paramDateFormat", s |-> format]
paramWithError(message) == [type |-> "paramWithError", message |-> message]
Params ==
  {ParamLimit(0), ParamLimit(42), ParamLimit(7)}
    \cup {ParamOffset(0), ParamOffset(42)}
    \cup {ParamFields(<<>>), ParamFields(<<"abc", "def">>), ParamFields(<<"id">>)}
    \cup {ParamAccessToken(""), ParamAccessToken("t1"), ParamAccessToken("t2")}
    \cup {ParamDateFormat(""), ParamDateFormat("U")}
    \cup {paramWithError("e1"), paramWithError("e2")}

\* The argument lists of ParamValues: up to MaxParams Params.
ParamLists == UNION {[1..n -> Params] : n \in 0..MaxParams}

\* An invocation of ParamValues(params...), after v = make(url.Values).
\* applied lists the positions of the Params whose Set has been called.
InitParams ==
  /\ BatchIdle
  /\ \E params \in ParamLists :
       fb = [op |-> "ParamValues", pc |-> "loop", params |-> params, i |-> 1,
             v |-> makeValues, applied |-> <<>>, ret |-> nil]

\* ParamValuesSet going on with the next Param after a Set that failed.
ParamValuesSetIgnoresError ==
  /\ fb.op = "ParamValues"
  /\ fb.pc = "loop"
  /\ fb.i <= Len(fb.params)
  /\ LET r == ParamSet(fb.params[fb.i], fb.v)
     IN fb' = [fb EXCEPT !.v = r.v, !.i = fb.i + 1, !.applied = Append(fb.applied, fb.i)]
  /\ UNCHANGED batchVars

\* ParamValues, lines 17-22: one turn of the loop.
ParamValuesSet ==
  /\ fb.op = "ParamValues"
  /\ fb.pc = "loop"
  /\ fb.i <= Len(fb.params)
  /\ LET r == ParamSet(fb.params[fb.i], fb.v)
     IN fb' = IF r.err # nil
                THEN [fb EXCEPT !.pc = "returned", !.applied = Append(fb.applied, fb.i),
                                !.v = r.v, !.ret = [v |-> nil, err |-> r.err]]
                ELSE [fb EXCEPT !.v = r.v, !.i = fb.i + 1,
                                !.applied = Append(fb.applied, fb.i)]
  /\ UNCHANGED batchVars

\* ParamValues, line 23: return v, nil.
ParamValuesReturn ==
  /\ fb.op = "ParamValues"
  /\ fb.pc = "loop"
  /\ fb.i > Len(fb.params)
  /\ fb' = [fb EXCEPT !.pc = "returned", !.ret = [v |-> fb.v, err |-> nil]]
  /\ UNCHANGED batchVars

NextParams == ParamValuesSet \/ ParamValuesReturn

SpecParams == InitParams /\ [][NextParams]_vars

\* The Params of a list that have the given type and are not the zero value
\* of the type, in the order of the list.
OfType(params, type) == SelectSeq(params, LAMBDA p : p.type = type)
NonEmptyFields(params) ==
  SelectSeq(params, LAMBDA p : p.type = "paramFields" /\ p.fields # <<>>)
NonEmptyString(params, type) ==
  SelectSeq(params, LAMBDA p : p.type = type /\ p.s # "")
NonZeroOffset(params) ==
  SelectSeq(params, LAMBDA p : p.type = "paramOffset" /\ p.n # 0)
Last(seq) == seq[Len(seq)]

\* The values that Params applied in the order of the list accumulate: every
\* limit and every offset other than 0 in order, the fields of the last
\* Param with fields, the last access token, every date format in order.
AccumulatedValues(params) ==
  [k \in Keys |->
     CASE k = "limit" ->
            [i \in 1..Len(OfType(params, "paramLimit")) |->
               FormatUint(OfType(params, "paramLimit")[i].n)]
       [] k = "offset" ->
            [i \in 1..Len(NonZeroOffset(params)) |->
               FormatUint(NonZeroOffset(params)[i].n)]
       [] k = "fields" ->
            IF NonEmptyFields(params) = <<>> THEN <<>>
            ELSE <<Join(Last(NonEmptyFields(params)).fields)>>
       [] k = "access_token" ->
            IF NonEmptyString(params, "paramAccessToken") = <<>> THEN <<>>
            ELSE <<Last(NonEmptyString(params, "paramAccessToken")).s>>
       [] k = "date_format" ->
            [i \in 1..Len(NonEmptyString(params, "paramDateFormat")) |->
               NonEmptyString(params, "paramDateFormat")[i].s]]

\* The positions of the Params of a list whose Set returns an error.
Failing(params) == {i \in 1..Len(params) : params[i].type = "paramWithError"}
Min(S) == CHOOSE i \in S : \A j \in S : i <= j

\* C27: ParamValues applies the Params in argument order to one fresh
\* url.Values. If the Set of a Param returns an error, ParamValues returns
\* nil values with that error and the Params after it are not applied;
\* otherwise it returns the accumulated values and a nil error.
C27_ParamValues ==
  (fb.op = "ParamValues" /\ fb.pc = "returned") =>
     IF Failing(fb.params) # {}
       THEN /\ fb.ret = [v |-> nil,
                         err |-> [error |-> fb.params[Min(Failing(fb.params))].message]]
            /\ fb.applied = [i \in 1..Min(Failing(fb.params)) |-> i]
       ELSE /\ fb.ret = [v |-> AccumulatedValues(fb.params), err |-> nil]
            /\ fb.applied = [i \in 1..Len(fb.params) |-> i]

\* ParamValues has returned the error of the first of two Params and has not
\* applied the second one.
C27_Witness ==
  /\ fb.op = "ParamValues" /\ fb.pc = "returned"
  /\ Len(fb.params) = 2
  /\ fb.params[1].type = "paramWithError"
  /\ fb.ret.v = nil /\ fb.ret.err = [error |-> fb.params[1].message]
  /\ fb.applied = <<1>>

\* The Params that are the zero value of a type other than paramLimit.
ZeroValued(p) ==
  \/ p.type = "paramOffset" /\ p.n = 0
  \/ p.type = "paramFields" /\ p.fields = <<>>
  \/ p.type \in {"paramAccessToken", "paramDateFormat"} /\ p.s = ""

\* The effect on the values of the Set of the Param at position fb.i.
SetStepEffect ==
  (fb.op = "ParamValues" /\ fb.pc = "loop" /\ fb'.applied # fb.applied) =>
     LET p == fb.params[fb.i]
     IN /\ p.type = "paramLimit" =>
             fb'.v = [fb.v EXCEPT !["limit"] = Append(@, FormatUint(p.n))]
        /\ ZeroValued(p) => fb'.v = fb.v

\* C28: the Set of a ParamLimit always adds a limit value, also for the
\* limit 0; the Set of a ParamOffset, ParamFields, ParamAccessToken or
\* ParamDateFormat given the zero value (0, no fields, the empty string)
\* adds nothing.
C28_LimitZeroSent == [][SetStepEffect]_vars

\* ParamValues(ParamLimit(0), ParamOffset(0)) has returned values that hold
\* the limit "0" and no offset.
C28_Witness ==
  /\ fb.op = "ParamValues" /\ fb.pc = "returned"
  /\ fb.params = <<ParamLimit(0), ParamOffset(0)>>
  /\ fb.ret.err = nil
  /\ fb.ret.v["limit"] = <<FormatUint(0)>>
  /\ fb.ret.v["offset"] = <<>>

\* The redaction of api.go. A text is a sequence of strings, a URL with a
\* query being <<"https://graph.facebook.com/", path, "?", key, "=", value,
\* "&", key, "=", value, ...>>.
SecretKeys == {"access_token", "client_secret"}
\* redactedStub, "$1=-- XX -- REDACTED -- XX --", with $1 the key matched.
redactedStub(key) == <<key, "=", "-- XX -- REDACTED -- XX --">>

\* What is left of a text after the longest match of [^&]* at its start.
RECURSIVE afterValue(_)
afterValue(text) ==
  IF text = <<>> \/ Head(text) = "&" THEN text ELSE afterValue(Tail(text))

\* cleanURLRegExp.ReplaceAllString(text, redactedStub): every match of
\* (access_token|client_secret)=([^&]*) becomes the stub.
RECURSIVE ReplaceAllString(_)
ReplaceAllString(text) ==
  IF text = <<>> THEN <<>>
  ELSE IF Len(text) >= 2 /\ text[1] \in SecretKeys /\ text[2] = "="
    THEN redactedStub(text[1])
           \o ReplaceAllString(afterValue(SubSeq(text, 3, Len(text))))
    ELSE <<Head(text)>> \o ReplaceAllString(Tail(text))

\* Client.cleanURL, api.go lines 579-584
cleanURL(Redact, url) == IF Redact THEN ReplaceAllString(url) ELSE url

\* url.Values.Encode for values given as pairs sorted by key.
RECURSIVE Encode(_)
Encode(values) ==
  IF values = <<>> THEN <<>>
  ELSE <<values[1][1], "=", values[1][2]>>
         \o (IF Len(values) = 1 THEN <<>> ELSE <<"&">> \o Encode(Tail(values)))

\* u.String() of GetRaw, lines 590-596
urlString(path, values) ==
  <<"https://graph.facebook.com/", path, "?">> \o Encode(values)

\* The text of the error of http.Client.Do, a *url.Error: the operation, the
\* URL of the request and the cause.
urlError(op, url, cause) == <<op, " ">> \o url \o <<": ", cause>>

\* The values of the two requests that are compared: they differ in the
\* values of access_token and client_secret only. GetRaw sets date_format
\* on line 589.
Runs == {1, 2}
Secret(key, r) ==
  IF key = "access_token" THEN (IF r = 1 THEN "t1" ELSE "t2")
  ELSE (IF r = 1 THEN "s1" ELSE "s2")
GetRawValues(withToken, withSecret, r) ==
  (IF withToken THEN <<<<"access_token", Secret("access_token", r)>>>> ELSE <<>>)
    \o (IF withSecret THEN <<<<"client_secret", Secret("client_secret", r)>>>> ELSE <<>>)
    \o <<<<"date_format", "Y-m-d\\TH:i:s\\Z">>>>

\* The paths of the requests.
GetRawPaths == {"me", "oauth/access_token"}
\* The HttpClient of the Client: an http.Client, or one whose errors are
\* the bare cause.
HttpClients == {"http.Client", "custom"}
Causes == {"connection refused", "timeout"}

\* Two invocations of GetRaw(path, values) side by side on clients
\* configured alike, after http.NewRequest on line 596 has made the request.
InitGetRaw ==
  /\ BatchIdle
  /\ \E Redact \in BOOLEAN, client \in HttpClients, path \in GetRawPaths,
        withToken \in BOOLEAN, withSecret \in BOOLEAN :
       fb = [op |-> "GetRaw", pc |-> "Do", Redact |-> Redact,
             HttpClient |-> client, path |-> path,
             values |-> [r \in Runs |-> GetRawValues(withToken, withSecret, r)],
             resp |-> nil, ret |-> nil]

\* GetRaw, lines 600-604: c.HttpClient.Do(req) fails with the cause, or
\* answers with a response of the given status and body.
GetRawDo(ok, cause, code, body) ==
  /\ fb.op = "GetRaw"
  /\ fb.pc = "Do"
  /\ fb' = IF ok
             THEN [fb EXCEPT !.pc = "ReadAll",
                             !.resp = [StatusCode |-> code, Body |-> body]]
             ELSE [fb EXCEPT !.pc = "returned",
                    !.ret = [r \in Runs |->
                      LET u == urlString(fb.path, fb.values[r])
                          err == IF fb.HttpClient = "http.Client"
                                   THEN urlError("Get", u, cause) ELSE <<cause>>
                      IN [b |-> nil,
                          err |-> [error |->
                            <<"Request for URL ">> \o cleanURL(fb.Redact, u)
                              \o <<" failed with error ">> \o err \o <<".">>]]]]
  /\ UNCHANGED batchVars

\* GetRaw, lines 605-622: the body is read, and either the read fails, or
\* the status is an error and the body is returned in an error, or the body
\* is returned.
GetRawReadAll ==
  /\ fb.op = "GetRaw"
  /\ fb.pc = "ReadAll"
  /\ fb' = [fb EXCEPT !.pc = "returned",
       !.ret = [r \in Runs |->
         LET u == urlString(fb.path, fb.values[r])
         IN IF fb.resp.Body = "unreadable"
              THEN [b |-> nil,
                    err |-> [error |->
                      <<"Request for URL ">> \o cleanURL(fb.Redact, u)
                        \o <<" failed because body could not be read with error ",
                             "unexpected EOF", ".">>]]
            ELSE IF statusIsError(fb.resp.StatusCode)
              THEN IF fb.resp.Body = "garbage"
                     THEN [b |-> nil,
                           err |-> [error |-> <<"Parsing error response failed with ",
                                                "invalid character", ":\n", fb.resp.Body>>]]
                     ELSE [b |-> nil,
                           err |-> [error |-> <<"API call failed with error body:\n",
                                                fb.resp.Body>>]]
            ELSE [b |-> fb.resp.Body, err |-> nil]]]
  /\ UNCHANGED batchVars

NextGetRaw ==
  \/ \E ok \in BOOLEAN, cause \in Causes, code \in StatusCodes, body \in Bodies :
       GetRawDo(ok, cause, code, body)
  \/ GetRawReadAll

SpecGetRaw == InitGetRaw /\ [][NextGetRaw]_vars

\* The text holds the value of an access_token or client_secret parameter.
HoldsSecret(text) ==
  \E i \in 1..Len(text), key \in SecretKeys, r \in Runs : text[i] = Secret(key, r)

\* C29: with Redact set, two requests that differ only in the values of
\* access_token and client_secret return the same error text; with Redact
\* not set, the URL in the error text is left as it is.
C29_RedactedErrorText ==
  (fb.op = "GetRaw" /\ fb.pc = "returned" /\ fb.ret[1].err # nil) =>
     /\ fb.Redact => fb.ret[1].err = fb.ret[2].err
     /\ (~fb.Redact /\ fb.resp = nil /\ Len(fb.values[1]) > 1)
          => HoldsSecret(fb.ret[1].err.error)

\* ------------------------------------------------------------------------
\* Conservation, ownership of the result channels and the last flush.
\* ------------------------------------------------------------------------
\* The positions <<k, i>> at which call c stands in the accumulator of a
\* worker that is in its loop; the variable batch of a worker that has left
\* the loop for its last send is not read again.
InAccumulator(c) ==
  UNION {{<<k, i>> : i \in {j \in 1..Len(workers[k].batch) : workers[k].batch[j] = c}} :
         k \in {j \in Starts : workers[j].pc \in {"spawned", "select"}}}
\* The positions at which call c stands in a dispatched batch with its
\* result channel not yet written.
InFlight(c) == Dispatched(c) \ Writes(c)
\* The number of places that hold call c.
Places(c) ==
  Cardinality(InAccumulator(c)) + Cardinality(InFlight(c))
    + (IF c \in Resolved THEN 1 ELSE 0)

\* C31: every accepted call is in exactly one place: at one position of the
\* accumulator, at one position of one dispatched batch whose send has not
\* yet written its result, or resolved; and a call that is not accepted is
\* in none.
C31_Conservation ==
  \A c \in Calls : Places(c) = IF c \in Accepted THEN 1 ELSE 0

\* At once one call is in the accumulator, one in a batch whose transport
\* call is outstanding, and one resolved.
C31_Witness ==
  \E a, b, c \in Accepted :
    /\ InAccumulator(a) # {}
    /\ \E p \in InFlight(b) : sends[p[1]].pc = "BatchDo"
    /\ c \in Resolved
    /\ Places(a) = 1 /\ Places(b) = 1 /\ Places(c) = 1

\* The step writes the result channel of call c.
ResultWrite(c) == calls[c].wr = nil /\ calls'[c].wr # nil
\* The step is the write of the result channel of call c by send d at its
\* current position, after its call of BatchDo has returned.
WrittenBySend(c, d) ==
  /\ sends[d].pc = "deliver"
  /\ sends[d].tries = 1
  /\ sends[d].i <= Len(sends[d].rrs)
  /\ sends[d].rrs[sends[d].i] = c
  /\ sends'[d].i = sends[d].i + 1
  /\ calls'[c].from = d
  /\ calls'[c].wr = sendResult(sends[d].res, sends[d].err, sends[d].i)
\* Every write of a result channel is made by a send on a goroutine of its
\* own.
WriteByDispatcherOnly ==
  \A c \in Calls :
    ResultWrite(c) =>
      \E d \in 1..Len(sends) : WrittenBySend(c, d) /\ sends[d].by = 0
\* Every write of a result channel is made by a send after its BatchDo
\* returned, and not by a step of the worker's loop or of Stop; the send is
\* on a goroutine of its own, or it is the last send, which the worker runs
\* itself after it has left its loop on the closed intake.
WriteBySendOnly ==
  \A c \in Calls :
    ResultWrite(c) =>
      /\ \E d \in 1..Len(sends) :
           /\ WrittenBySend(c, d)
           /\ sends[d].by # 0 =>
                /\ sends[d].trigger = "closed"
                /\ workers[sends[d].by].pc = "send"
                /\ chanState[workers[sends[d].by].ch] = "closed"
      /\ InAccumulator(c) = {}
      /\ UNCHANGED <<work, chanState, MaxBatchSize, workGroup, workers, stops, crashed>>

BodyReadFailed == {c \in Calls : calls[c].ret = [res |-> nil, err |-> errBodyRead]}

\* C33: when the read of the request body fails in a Do on a started
\* client, Do returns that error in that step and changes nothing else: the
\* intake, the accumulator and the timer of every worker, the sends and the
\* wait group are as before; and such a call is never accepted, never in
\* an accumulator, never in a dispatched batch and never handed a result.
C33_BodyErrorEnqueuesNothing ==
  /\ [](\A c \in BodyReadFailed :
          /\ calls[c].pc = "done"
          /\ c \notin Accepted
          /\ c \notin Accumulated
          /\ Dispatched(c) = {}
          /\ calls[c].wr = nil)
  /\ [][\A c \in Calls :
          (work # 0 /\ DoBegin(c, FALSE)) =>
            /\ calls'[c].pc = "done"
            /\ calls'[c].ret = [res |-> nil, err |-> errBodyRead]
            /\ calls'[c].ch = 0
            /\ \A b \in Calls : b # c => calls'[b] = calls[b]
            /\ UNCHANGED <<work, chanState, MaxBatchSize, workGroup, workers,
                           sends, stops, crashed>>]_vars

\* A Do has returned the error of the read of its body while the worker
\* holds another call in its accumulator with the timer armed and a batch
\* is in dispatch, and every sub-request made so far is another call's.
C33_Witness ==
  /\ BodyReadFailed # {}
  /\ \E k \in Starts : workers[k].batch # <<>> /\ workers[k].batchTimeout
  /\ \E d \in 1..Len(sends) : sends[d].pc = "BatchDo"
  /\ \A c \in BodyReadFailed : Dispatched(c) = {}

\* C34: every call of BatchDo made by a send carries at least one
\* sub-request, whether the send was made by the timer, by the size trigger
\* or on the closed intake.
C34_NoEmptyBatch ==
  \A d \in 1..Len(sends) : sends[d].tries >= 1 => Len(sends[d].req) >= 1

\* The worker has left its loop: it runs its last send or has returned.
LeftLoop(k) == workers[k].pc \in {"send", "exited"}
\* The effect of the step in which a worker observes the closed intake, and
\* of every step after it.
FinalFlushEffect ==
  /\ \A k \in Starts :
       /\ (workers[k].pc = "select" /\ workers'[k].pc # "select") =>
            /\ chanState[workers[k].ch] = "closed"
            /\ workers'[k].pc = "send"
            /\ Len(sends') = Len(sends) + 1
            /\ sends'[Len(sends')].rrs = workers[k].batch
            /\ sends'[Len(sends')].req = BatchRequest(workers[k].batch)
            /\ sends'[Len(sends')].by = k
            /\ sends'[Len(sends')].trigger = "closed"
            /\ sends'[Len(sends')].timer = 0
       /\ LeftLoop(k) =>
            /\ workers'[k].pc \in {"send", "exited"}
            /\ workers'[k].batch = workers[k].batch
       /\ (workers[k].pc = "send" /\ workers'[k].pc = "exited") =>
            \E d \in 1..Len(sends) :
              sends[d].by = k /\ sends[d].pc = "deliver" /\ sends'[d].pc = "done"
  /\ Len(sends') > Len(sends) =>
       \E k \in Starts : workers[k].pc = "select" /\ workers'[k] # workers[k]

\* C35: a worker at its select whose intake is closed can take the closed
\* case at once, whether its timer is armed or not; the step in which it
\* does hands the whole accumulator to one last send, which the worker runs
\* itself; when that send has finished the worker has returned; and a
\* worker that has left its loop never flushes again: it makes no send but
\* that one.
C35_FinalFlush ==
  /\ [](\A k \in Starts :
          /\ (~crashed /\ workers[k].pc = "select" /\ workers[k].ch # 0
                /\ chanState[workers[k].ch] = "closed") => ENABLED WorkerClosed(k)
          /\ LeftLoop(k) =>
               Cardinality({d \in 1..Len(sends) : sends[d].by = k}) = 1
          /\ \A d \in 1..Len(sends) :
               sends[d].by = k =>
                 /\ sends[d].trigger = "closed"
                 /\ workers[k].pc = IF sends[d].pc = "done" THEN "exited" ELSE "send")
  /\ [][FinalFlushEffect]_vars

\* Stop found two calls in the accumulator with the timer armed; the worker
\* has dispatched both in its last send, every caller has its result and
\* the worker has returned.
C35_Witness ==
  \E k \in Starts, d \in 1..Len(sends) :
    /\ workers[k].pc = "exited"
    /\ workers[k].batchTimeout
    /\ sends[d].by = k
    /\ sends[d].pc = "done"
    /\ Len(sends[d].rrs) = 2
    /\ \A i \in 1..2 : sends[d].rrs[i] \in Resolved

\* C36: a Stop on a started client returns. In a state in which the one
\* Stop made so far waits in c.workGroup.Wait() the process has not
\* panicked, so that the worker and the sends go on and the Stop can return.
C36_StopTerminates ==
  \A s \in Stops :
    (stops[s].pc = "Wait" /\ \A t \in Stops \ {s} : stops[t].pc = "idle") => ~crashed

\* ------------------------------------------------------------------------
\* The defaults of Start.
\* ------------------------------------------------------------------------
\* The values a Client is configured with. MaxBatchSize is an int in
\* fbbatch.go and a uint in the muster-based client, PendingWorkCapacity a
\* uint, BatchTimeout a time.Duration (an int64), here in milliseconds.
IntSizes == {-1, 0, 1, 2, 50, 51}
UintSizes == {0, 1, 2, 50, 51}
Durations == {-1, 0, 1, 10, 1000}
Capacities == {0, 1, 1000}

\* A Client of fbbatch.go or of the muster-based package as configured,
\* before Start.
InitStart ==
  /\ BatchIdle
  /\ \/ \E size \in IntSizes, timeout \in Durations :
          fb = [op |-> "Start", pc |-> "configured", package |-> "fbbatch",
                config |-> [MaxBatchSize |-> size, BatchTimeout |-> timeout,
                            PendingWorkCapacity |-> 0],
                MaxBatchSize |-> size, BatchTimeout |-> timeout,
                PendingWorkCapacity |-> 0]
     \/ \E size \in UintSizes, timeout \in Durations, capacity \in Capacities :
          fb = [op |-> "Start", pc |-> "configured", package |-> "muster",
                config |-> [MaxBatchSize |-> size, BatchTimeout |-> timeout,
                            PendingWorkCapacity |-> capacity],
                MaxBatchSize |-> 0, BatchTimeout |-> 0, PendingWorkCapacity |-> 0]

\* Start of fbbatch.go, lines 172-177: the defaults are written to the
\* fields of the Client.
StartDefaults ==
  /\ fb.op = "Start"
  /\ fb.pc = "configured"
  /\ fb.package = "fbbatch"
  /\ fb' = [fb EXCEPT
       !.pc = "started",
       !.BatchTimeout = IF fb.BatchTimeout = 0 THEN DefaultBatchTimeout ELSE fb.BatchTimeout,
       !.MaxBatchSize = IF fb.MaxBatchSize = 0 THEN DefaultMaxBatchSize ELSE fb.MaxBatchSize]
  /\ UNCHANGED batchVars

\* start of the muster-based client, part_001 lines 198-214: the values
\* handed to c.muster.
musterStartDefaults ==
  /\ fb.op = "Start"
  /\ fb.pc = "configured"
  /\ fb.package = "muster"
  /\ LET pendingWorkCapacity ==
           IF fb.config.PendingWorkCapacity = 0 THEN defaultPendingWorkCapacity
           ELSE fb.config.PendingWorkCapacity
         maxBatchSize ==
           IF fb.config.MaxBatchSize = 0 THEN defaultMaxBatchSize
           ELSE fb.config.MaxBatchSize
         batchTimeout ==
           IF fb.config.BatchTimeout = 0 THEN defaultBatchTimeout
           ELSE fb.config.BatchTimeout
     IN fb' = [fb EXCEPT !.pc = "started", !.BatchTimeout = batchTimeout,
                         !.MaxBatchSize = maxBatchSize,
                         !.PendingWorkCapacity = pendingWorkCapacity]
  /\ UNCHANGED batchVars

NextStart == StartDefaults \/ musterStartDefaults

SpecStart == InitStart /\ [][NextStart]_vars

\* The options in effect after Start are the configured ones, with the
\* default in the place of every zero.
DefaultsForUnset ==
  (fb.op = "Start" /\ fb.pc = "started") =>
     /\ fb.MaxBatchSize = IF fb.config.MaxBatchSize = 0 THEN 50 ELSE fb.config.MaxBatchSize
     /\ fb.BatchTimeout = IF fb.config.BatchTimeout = 0 THEN 10 ELSE fb.config.BatchTimeout
     /\ fb.package = "muster" =>
          fb.PendingWorkCapacity =
            IF fb.config.PendingWorkCapacity = 0 THEN 1000
            ELSE fb.config.PendingWorkCapacity

\* C37: after Start a zero MaxBatchSize has become 50, a zero BatchTimeout
\* 10ms and, in the muster-based client, a zero PendingWorkCapacity 1000,
\* every other configured value is in effect unchanged, and the maximum
\* batch size in effect is at least 1.
C37_StartDefaults ==
  /\ DefaultsForUnset
  /\ (fb.op = "Start" /\ fb.pc = "started") => fb.MaxBatchSize >= 1

\* ------------------------------------------------------------------------
\* Package fbapic: Cache.Do (src/fbapic/fbapic.go).
\* ------------------------------------------------------------------------
Methods == {"GET", "HEAD", "POST", "DELETE"}
CachePaths == {"me", "you"}
\* The Prefix of the Cache.
Prefix == "p"

\* cacheKey making a key for every method.
cacheKeyAnyMethod(method, path) == <<Prefix, ":", method, ":", path>>

\* Cache.Do, lines 36-39: the key, <<>> for the empty string.
cacheKey(method, path) ==
  IF method = "GET" \/ method = "HEAD" THEN <<Prefix, ":", method, ":", path>> ELSE <<>>

\* The keys a ByteCache is asked for, the empty key among them.
CacheKeys == {cacheKey(m, q) : m \in Methods, q \in CachePaths}

\* No value under a key of the ByteCache.
absent == [absent |-> TRUE]
\* The JSON text of a value, as a []byte.
jsonOf(value) == [json |-> value]
\* What the Graph API answers for a path, decoded into result.
apiResult(method, path) == [object |-> path, method |-> method]

\* json.Unmarshal(raw, result): an error for the nil and the empty slice,
\* which are not JSON texts, else the value decoded.
jsonUnmarshal(raw) ==
  IF raw = nil THEN [value |-> nil, err |-> [error |-> "unexpected end of JSON input"]]
  ELSE [value |-> raw.json, err |-> nil]

\* ByteCache.Get(key) of a store that answers a missing key with (nil, nil).
byteCacheGet(cache, key) == IF cache[key] = absent THEN nil ELSE cache[key]

\* An invocation of Cache.Do that has not begun.
idleCacheDo ==
  [pc |-> "idle", method |-> "", path |-> "", key |-> <<>>, raw |-> nil,
   result |-> nil, gets |-> 0, lookup |-> "none", clientCalls |-> 0,
   stored |-> <<>>, ret |-> nil]

\* A Cache over a ByteCache that is empty or holds, put there by another
\* process, the JSON text of the answer for GET me.
InitCache ==
  /\ BatchIdle
  /\ \E cache \in {[k \in CacheKeys |-> absent],
                    [k \in CacheKeys |->
                       IF k = cacheKey("GET", "me") THEN jsonOf(apiResult("GET", "me"))
                       ELSE absent]} :
       fb = [op |-> "Cache.Do", cache |-> cache, n |-> 0, cur |-> idleCacheDo,
             log |-> <<>>]

\* Cache.Do, lines 35-39: the invocation begins and makes its key.
CacheDoBegin(method, path) ==
  /\ fb.op = "Cache.Do"
  /\ fb.cur.pc = "idle"
  /\ fb.n < MaxCacheCalls
  /\ LET key == cacheKey(method, path)
     IN fb' = [fb EXCEPT !.n = fb.n + 1,
                         !.cur = [idleCacheDo EXCEPT
                                    !.pc = IF key # <<>> THEN "Get" ELSE "miss",
                                    !.method = method, !.path = path, !.key = key]]
  /\ UNCHANGED batchVars

\* Cache.Do, lines 43-57: c.ByteCache.Get(key), which fails or answers,
\* and json.Unmarshal(raw, result).
CacheDoGet(getOK) ==
  /\ fb.op = "Cache.Do"
  /\ fb.cur.pc = "Get"
  /\ LET raw == byteCacheGet(fb.cache, fb.cur.key)
         u == jsonUnmarshal(raw)
         lookup == IF ~getOK THEN "error" ELSE IF raw = nil THEN "no value" ELSE "value"
         cur == [fb.cur EXCEPT !.gets = fb.cur.gets + 1, !.lookup = lookup]
     IN fb' = [fb EXCEPT !.cur =
          IF ~getOK
            THEN [cur EXCEPT !.pc = "returned",
                             !.ret = [error |-> "fbapic error in storage.Get"]]
          ELSE IF u.err # nil
            THEN [cur EXCEPT !.pc = "returned", !.raw = raw,
                             !.ret = [error |-> "json.Unmarshal error", cause |-> u.err]]
          ELSE [cur EXCEPT !.pc = IF raw = nil THEN "miss" ELSE "hit",
                           !.raw = raw, !.result = u.value]]
  /\ UNCHANGED batchVars

\* Cache.Do, lines 59-74: raw == nil, so c.Client.Do is called and, when it
\* succeeds, c.ByteCache.Store(key, raw, c.Timeout), whose error is logged
\* only.
CacheDoMiss(clientOK, storeOK) ==
  /\ fb.op = "Cache.Do"
  /\ fb.cur.pc = "miss"
  /\ LET cur == [fb.cur EXCEPT !.clientCalls = fb.cur.clientCalls + 1]
     IN fb' = IF ~clientOK
                THEN [fb EXCEPT !.cur = [cur EXCEPT !.pc = "returned",
                                                    !.ret = [error |-> "graph api error"]]]
                ELSE [fb EXCEPT
                        !.cache = IF storeOK THEN [fb.cache EXCEPT ![cur.key] = cur.raw]
                                  ELSE fb.cache,
                        !.cur = [cur EXCEPT
                                   !.pc = "returned",
                                   !.result = apiResult(cur.method, cur.path),
                                   !.stored = Append(cur.stored, <<cur.key, cur.raw>>),
                                   !.ret = nil]]
  /\ UNCHANGED batchVars

\* Cache.Do, lines 75-79: raw != nil, the cache hit; return nil.
CacheDoHit ==
  /\ fb.op = "Cache.Do"
  /\ fb.cur.pc = "hit"
  /\ fb' = [fb EXCEPT !.cur = [fb.cur EXCEPT !.pc = "returned", !.ret = nil]]
  /\ UNCHANGED batchVars

\* The invocation has returned; the next one may begin.
CacheDoReturn ==
  /\ fb.op = "Cache.Do"
  /\ fb.cur.pc = "returned"
  /\ fb' = [fb EXCEPT !.log = Append(fb.log, fb.cur), !.cur = idleCacheDo]
  /\ UNCHANGED batchVars

NextCache ==
  \/ \E method \in Methods, path \in CachePaths : CacheDoBegin(method, path)
  \/ \E getOK \in BOOLEAN : CacheDoGet(getOK)
  \/ \E clientOK \in BOOLEAN, storeOK \in BOOLEAN : CacheDoMiss(clientOK, storeOK)
  \/ CacheDoHit
  \/ CacheDoReturn

SpecCache == InitCache /\ [][NextCache]_vars

\* The invocations of Cache.Do made so far, the one in progress included.
CacheDos ==
  IF fb.op # "Cache.Do" THEN <<>>
  ELSE IF fb.cur.pc = "idle" THEN fb.log ELSE Append(fb.log, fb.cur)

\* C38: Cache.Do calls the Get of the byte cache only for the methods GET
\* and HEAD, and then once; for every other method it never calls Get and
\* has called the API client exactly once when it returns.
C38_CacheByMethod ==
  \A j \in 1..Len(CacheDos) :
    LET do == CacheDos[j]
    IN /\ do.gets > 0 => (do.method \in {"GET", "HEAD"} /\ do.gets = 1)
       /\ do.method \notin {"GET", "HEAD"} =>
            /\ do.gets = 0
            /\ do.lookup = "none"
            /\ do.clientCalls <= 1
            /\ do.pc = "returned" => do.clientCalls = 1

\* A POST has returned after one call of the API client and no Get, after
\* a GET that called Get once.
C38_Witness ==
  /\ Len(CacheDos) = 2
  /\ CacheDos[1].method = "GET" /\ CacheDos[1].gets = 1
  /\ CacheDos[2].method = "POST" /\ CacheDos[2].pc = "returned"
  /\ CacheDos[2].gets = 0 /\ CacheDos[2].clientCalls = 1

\* C39: a Cache.Do for GET or HEAD whose lookup found no value has, when it
\* returns, called the API client once and, when that call succeeded,
\* stored the JSON text of the response under the key prefix:method:path;
\* and a later Cache.Do with the same method and path, after a Store that
\* succeeded, finds the value, returns the same result and does not call
\* the API client.
C39_CacheRoundTrip ==
  \A j \in 1..Len(CacheDos) :
    LET do == CacheDos[j]
    IN (do.pc = "returned" /\ do.method \in {"GET", "HEAD"} /\ do.lookup = "no value") =>
         /\ do.clientCalls = 1
         /\ do.ret = nil =>
              do.stored = <<<<<<Prefix, ":", do.method, ":", do.path>>, jsonOf(do.result)>>>>
         /\ \A l \in (j + 1)..Len(CacheDos) :
              (CacheDos[l].pc = "returned" /\ CacheDos[l].key = do.key /\ do.ret = nil) =>
                /\ CacheDos[l].lookup \in {"value", "error"}
                /\ CacheDos[l].clientCalls = 0
                /\ CacheDos[l].ret = nil => CacheDos[l].result = do.result

====
